---- MODULE Spec2Model ----
(***************************************************************************)
(* parfait: narration extraction from a markdown deck and speech           *)
(* synthesis per slide (src/tts.go), the two-track stages that join their  *)
(* language tracks, and the assembly of the clips (src/video.go).          *)
(*                                                                         *)
(* A document is the sequence of top-level nodes of its goldmark tree      *)
(* (front matter already removed by the frontmatter extension).  An HTML   *)
(* block carries its lines and, apart from them, the line that closes it,  *)
(* as goldmark's ast.HTMLBlock does.  Text is a sequence of one-character  *)
(* strings, so that trimming, prefix tests and substring search are        *)
(* computed and not assumed.                                               *)
(***************************************************************************)
EXTENDS Integers, Sequences, FiniteSets, TLC

VARIABLES
    doc,          \* top-level nodes of the parsed markdown file
    env,          \* process environment: GOOGLE_API_KEY_1..10 and GOOGLE_API_KEY
    useGemini,    \* backend selection of runTTSGeneration
    pc,           \* position in runTTSGeneration / in the parse-only harness
    keys,         \* APIKeyManager.keys
    index,        \* APIKeyManager.index, the rotation cursor
    notes,        \* result of extractNotesFromMarkdown: the SlideNotes
    parseErr,     \* result of extractNotesFromMarkdown: the error, or NoErr
    slide,        \* position of the slide loop in notes (1-based)
    keyAttempt,   \* loop counter of generateGeminiTTS
    lastErr,      \* lastErr of generateGeminiTTS
    files,        \* output directory: the audio files by name, each with the
                  \* slide whose synthesis wrote it, how it was written
                  \* and what was written
    tried,        \* the attempts of the request in progress: the key used,
                  \* the cursor before it, the kind of its outcome
    last,         \* the synthesis request that the latest step finished, if it
                  \* finished one: its attempts, its last outcome, the error
                  \* returned, the cursor after it
    skipped,      \* slide numbers whose synthesis failed (warning, continue)
    runErr,       \* return value of runTTSGeneration
    health,       \* what the probe of the local service gave, NoProbe before it
    exitErr,      \* the error run returned without calling runTTSGeneration
    \* a two-track stage (runVideoCreation, runMarpGeneration)
    stage,        \* which of the two stages runs
    stagePc,      \* position of the stage: "check", "join", "done"
    track,        \* per language: the goroutine's position and what it sent
    resultChan,   \* the buffered channel of results
    recvd,        \* the languages received so far, in the order received
    jaErr,        \* jaErr of the stage
    enErr,        \* enErr of the stage
    stageErr,     \* return value of the stage
    stageWarn,    \* the language the stage's closing warning names, if any
    \* one language's createVideo followed by createCombinedVideo
    images,       \* names in slidesDir that match slide.*.png
    vpc,          \* position: "start", "loop", "made", "done"
    slideFiles,   \* the slice slides of createVideo
    vi,           \* position of createVideo's loop in slides (1-based)
    order,        \* the slides whose number was read, in the order processed,
                  \* each with what became of it
    clips,        \* names in outputDir that match slide-<lang>-*.mp4
    filelist,     \* the manifest filelist-<lang>.txt
    concat,       \* the concatenating run of the encoder
    videoErr,     \* return value of createVideo
    combineErr,   \* return value of createCombinedVideo
    \* the caller's context, the saved configuration, the WAV writer alone
    cancelled,    \* the context handed to run has been cancelled
    cfgKeys,      \* google_api_keys of the saved configuration
    cfgLegacy,    \* google_api_key of the saved configuration, the older field
    cmd,          \* the config command run last, its argument, and how many
                  \* commands have been run
    wavIn,        \* arguments of a call of writeWAVFile
    wavOut,       \* the file that call wrote
    wf            \* run of the whole workflow: its flags, the stages it
                  \* has started, what they returned, what it returns

ttsVars == <<doc, env, useGemini, pc, keys, index, notes, parseErr, slide,
             keyAttempt, lastErr, files, tried, last, skipped, runErr,
             health, exitErr>>

stageVars == <<stage, stagePc, track, resultChan, recvd, jaErr, enErr,
               stageErr, stageWarn>>

videoVars == <<images, vpc, slideFiles, vi, order, clips, filelist, concat,
               videoErr, combineErr>>

auxVars == <<cancelled, cfgKeys, cfgLegacy, cmd, wavIn, wavOut, wf>>

vars == <<ttsVars, stageVars, videoVars, auxVars>>

-----------------------------------------------------------------------------
(* Bounds of the model *)

\* longest document, in top-level nodes, given to the parser alone
MaxNodes == 4
\* most slides of a document run through the whole synthesis pipeline
MaxSlides == 2
\* most API keys set in the environment
MaxKeys == 3
\* most slide images in a directory
MaxImages == 3

(* Program constants *)

\* ast.HTMLBlockType2: an HTML block opened by <!--
HTMLBlockType2 == 2
\* GOOGLE_API_KEY_1 .. GOOGLE_API_KEY_10
MaxEnvKeys == 10

-----------------------------------------------------------------------------
(* Text *)

IsSpace(c) == c \in {" ", "\n", "\t", "\r"}

RECURSIVE TrimLeft(_)
TrimLeft(s) ==
    IF s # <<>> /\ IsSpace(Head(s)) THEN TrimLeft(Tail(s)) ELSE s

RECURSIVE TrimRight(_)
TrimRight(s) ==
    IF s # <<>> /\ IsSpace(s[Len(s)])
    THEN TrimRight(SubSeq(s, 1, Len(s) - 1))
    ELSE s

\* strings.TrimSpace
TrimSpace(s) == TrimRight(TrimLeft(s))

\* strings.HasPrefix
HasPrefix(s, p) == Len(s) >= Len(p) /\ SubSeq(s, 1, Len(p)) = p

\* strings.Index: 0-based position of the first occurrence, or -1
Index(s, sub) ==
    LET at == {i \in 0..(Len(s) - Len(sub)) : SubSeq(s, i + 1, i + Len(sub)) = sub}
    IN  IF at = {} THEN -1 ELSE CHOOSE i \in at : \A j \in at : i <= j

\* bytes.Buffer.Write, line after line
RECURSIVE Concat(_)
Concat(parts) == IF parts = <<>> THEN <<>> ELSE Head(parts) \o Concat(Tail(parts))

\* strings.Join
RECURSIVE Join(_, _)
Join(parts, sep) ==
    IF parts = <<>> THEN <<>>
    ELSE IF Len(parts) = 1 THEN parts[1]
    ELSE parts[1] \o sep \o Join(Tail(parts), sep)

CommentOpen == <<"<", "!", "-", "-">>
CommentClose == <<"-", "-", ">">>
Newline == <<"\n">>

-----------------------------------------------------------------------------
(* Nodes of the document tree *)

\* lines: the lines of the block (Lines()); closure: the line that closes
\* an HTML block (ClosureLine), which is not one of its lines
Node(kind, level, children, htype, lines, closure) ==
    [kind |-> kind, level |-> level, children |-> children,
     HTMLBlockType |-> htype, lines |-> lines, closure |-> closure]

ThematicBreak == Node("ThematicBreak", 0, <<>>, 0, << <<"-", "-", "-", "\n">> >>, <<>>)

\* "## T" with an emphasised word after the text child
HeadingT ==
    Node("Heading", 2,
         << [kind |-> "Text", value |-> <<"T">>],
            [kind |-> "Emphasis", value |-> <<"e">>] >>,
         0, << <<"#", "#", " ", "T", "*", "e", "*", "\n">> >>, <<>>)

HTMLBlock(htype, lines, closure) == Node("HTMLBlock", 0, <<>>, htype, lines, closure)

\* the README's format: the comment's text on lines of its own
CommentA ==
    HTMLBlock(2, << CommentOpen \o <<"\n">>, <<"a", "\n">> >>, CommentClose \o <<"\n">>)
\* a comment on one line
CommentB == HTMLBlock(2, << CommentOpen \o <<" ", "b", " ">> \o CommentClose \o <<"\n">> >>, <<>>)
\* a comment holding white space only
CommentBlank == HTMLBlock(2, << CommentOpen \o <<" ">> \o CommentClose \o <<"\n">> >>, <<>>)
\* two comments on one line: one HTML block
CommentAB ==
    HTMLBlock(2, << CommentOpen \o <<"a">> \o CommentClose
                    \o CommentOpen \o <<"b">> \o CommentClose \o <<"\n">> >>, <<>>)
\* a comment of two lines that closes at the end of its second line
CommentSplit ==
    HTMLBlock(2, << CommentOpen \o <<" ", "a", "\n">> >>,
              <<"b", " ">> \o CommentClose \o <<"\n">>)
\* a comment that opens on a line of its own and closes at the end of its
\* text
CommentTail ==
    HTMLBlock(2, << CommentOpen \o <<"\n">> >>, <<"a", " ">> \o CommentClose \o <<"\n">>)
\* an HTML block that is no comment
DivBlock == HTMLBlock(6, << <<"<", "p", ">", "\n">> >>, <<>>)

Paragraph(lines) == Node("Paragraph", 0, <<>>, 0, lines, <<>>)
ParagraphX == Paragraph(<< <<"x", "\n">> >>)
\* a comment inside a paragraph: inline raw HTML, no HTML block
ParagraphInline ==
    Paragraph(<< <<"x", " ">> \o CommentOpen \o <<"a">> \o CommentClose \o <<"\n">> >>)

\* a code fence whose one line of code is ---
FencedRule == Node("FencedCodeBlock", 0, <<>>, 0, << <<"-", "-", "-", "\n">> >>, <<>>)
\* "> ---": a block quote whose child is a thematic break
QuoteRule ==
    Node("Blockquote", 0, << [kind |-> "ThematicBreak", value |-> <<"-", "-", "-">>] >>,
         0, << <<">", " ", "-", "-", "-", "\n">> >>, <<>>)

NodeSet ==
    {ThematicBreak, HeadingT, CommentA, CommentB, CommentBlank, CommentAB,
     CommentSplit, CommentTail, DivBlock, ParagraphX, ParagraphInline}

SeqsUpTo(S, n) == UNION {[1..k -> S] : k \in 0..n}

\* the documents given to the parser alone
Docs == SeqsUpTo(NodeSet, MaxNodes)

-----------------------------------------------------------------------------
(* Markdown slide parser *)

NoErr == [kind |-> "nil"]

\* extractHeadingText: the text children of the heading, concatenated
RECURSIVE extractHeadingText(_)
extractHeadingText(children) ==
    IF children = <<>> THEN <<>>
    ELSE (IF Head(children).kind = "Text" THEN Head(children).value ELSE <<>>)
         \o extractHeadingText(Tail(children))

\* extractHTMLComment: the comment content of an HTML block, "" if none
extractHTMLComment(block) ==
    IF block.HTMLBlockType # HTMLBlockType2 THEN <<>>
    ELSE LET html == TrimSpace(Concat(block.lines)) IN
         IF ~HasPrefix(html, CommentOpen) THEN <<>>
         ELSE LET content == SubSeq(html, 5, Len(html))
                  idx == Index(content, CommentClose)
              IN  TrimSpace(IF idx # -1 THEN SubSeq(content, 1, idx) ELSE content)

EmptySlide == [title |-> <<>>, comments |-> <<>>]

\* every segment saved, the empty ones too
KeepSlideAlways(current, hasContent) == TRUE

\* the condition under which the current slide is saved
KeepSlide(current, hasContent) ==
    hasContent \/ current.title # <<>> \/ Len(current.comments) > 0

\* a rule wherever it stands: a child that is a thematic break, or a node
\* that holds one, or a line ---
IsBoundaryAnyRule(n) ==
    \/ n.kind = "ThematicBreak"
    \/ \E i \in 1..Len(n.children) : n.children[i].kind = "ThematicBreak"
    \/ \E i \in 1..Len(n.lines) : n.lines[i] = <<"-", "-", "-", "\n">>

\* line 253, case *ast.ThematicBreak: the child of the document is one
IsBoundary(n) == n.kind = "ThematicBreak"

\* one iteration of the loop over the document's children
RECURSIVE SplitLoop(_, _, _, _)
SplitLoop(rest, slides, current, hasContent) ==
    IF rest = <<>>
    THEN IF KeepSlide(current, hasContent) THEN Append(slides, current) ELSE slides
    ELSE LET n == Head(rest) IN
         CASE IsBoundary(n) ->
                SplitLoop(Tail(rest),
                          IF KeepSlide(current, hasContent)
                          THEN Append(slides, current) ELSE slides,
                          EmptySlide, FALSE)
           [] ~IsBoundary(n) /\ n.kind = "Heading" ->
                SplitLoop(Tail(rest), slides,
                          IF n.level <= 2 /\ current.title = <<>>
                          THEN [current EXCEPT !.title = extractHeadingText(n.children)]
                          ELSE current,
                          TRUE)
           [] ~IsBoundary(n) /\ n.kind = "HTMLBlock" ->
                LET comment == extractHTMLComment(n) IN
                SplitLoop(Tail(rest), slides,
                          IF comment # <<>>
                          THEN [current EXCEPT !.comments = Append(@, comment)]
                          ELSE current,
                          TRUE)
           [] OTHER -> SplitLoop(Tail(rest), slides, current, TRUE)

splitNodesByThematicBreak(d) == SplitLoop(d, <<>>, EmptySlide, FALSE)

NoTitle == <<"(", "n", "o", " ", "t", "i", "t", "l", "e", ")">>

\* the loop of extractNotesFromMarkdown that hands back, with the error, the
\* notes gathered before the slide without comment
RECURSIVE NotesLoopPartial(_, _, _)
NotesLoopPartial(slides, i, acc) ==
    IF i > Len(slides) THEN [notes |-> acc, err |-> NoErr]
    ELSE IF Len(slides[i].comments) = 0
    THEN [notes |-> acc,
          err |-> [kind |-> "no comment", slide |-> i,
                   title |-> IF slides[i].title = <<>> THEN NoTitle
                             ELSE slides[i].title]]
    ELSE NotesLoopPartial(slides, i + 1,
                          Append(acc, [SlideNumber |-> i,
                                       Note |-> Join(slides[i].comments, Newline)]))

\* the loop of extractNotesFromMarkdown over the slides from position i on
RECURSIVE NotesLoop(_, _, _)
NotesLoop(slides, i, acc) ==
    IF i > Len(slides) THEN [notes |-> acc, err |-> NoErr]
    ELSE IF Len(slides[i].comments) = 0
    THEN [notes |-> <<>>,
          err |-> [kind |-> "no comment", slide |-> i,
                   title |-> IF slides[i].title = <<>> THEN NoTitle
                             ELSE slides[i].title]]
    ELSE NotesLoop(slides, i + 1,
                   Append(acc, [SlideNumber |-> i,
                                Note |-> Join(slides[i].comments, Newline)]))

extractNotesFromMarkdown(d) == NotesLoop(splitNodesByThematicBreak(d), 1, <<>>)

-----------------------------------------------------------------------------
(* API key pool *)

Unset == <<>>
Digit(d) == <<"0", "1", "2", "3", "4", "5", "6", "7", "8", "9">>[d + 1]

\* %d
RECURSIVE Itoa(_)
Itoa(n) == IF n < 10 THEN <<Digit(n)>> ELSE Append(Itoa(n \div 10), Digit(n % 10))

\* the width of %03d
PadWidth == 3

RECURSIVE ZeroPad(_)
ZeroPad(ds) == IF Len(ds) >= PadWidth THEN ds ELSE ZeroPad(<<"0">> \o ds)

\* fmt.Sprintf("%03d", n)
Sprintf03(n) == ZeroPad(Itoa(n))

\* the i-th of the keys of the model
Key(i) == <<"k">> \o Itoa(i)
\* a value that is not empty and holds nothing but white space
Blank == <<" ">>

\* NewAPIKeyManager that hands out a manager whatever the pool holds
NewAPIKeyManagerLax(e) ==
    LET numbered == SelectSeq([i \in 1..MaxEnvKeys |-> e.numbered[i]],
                              LAMBDA k : k # Unset)
    IN  [keys |-> IF Len(numbered) = 0 /\ e.single # Unset
                  THEN <<e.single>> ELSE numbered,
         index |-> 0, err |-> NoErr]

\* a loader that puts GOOGLE_API_KEY behind the numbered keys
NewAPIKeyManagerBoth(e) ==
    LET numbered == SelectSeq([i \in 1..MaxEnvKeys |-> e.numbered[i]],
                              LAMBDA k : k # Unset)
        pool == IF e.single # Unset THEN Append(numbered, e.single) ELSE numbered
    IN  IF Len(pool) = 0
        THEN [keys |-> <<>>, index |-> 0, err |-> [kind |-> "no API keys found"]]
        ELSE [keys |-> pool, index |-> 0, err |-> NoErr]

\* NewAPIKeyManager: the pool read from the environment, or the error
NewAPIKeyManager(e) ==
    LET numbered == SelectSeq([i \in 1..MaxEnvKeys |-> e.numbered[i]],
                              LAMBDA k : k # Unset)
        pool == IF Len(numbered) = 0
                THEN (IF e.single # Unset THEN <<e.single>> ELSE <<>>)
                ELSE numbered
    IN  IF Len(pool) = 0
        THEN [keys |-> <<>>, index |-> 0, err |-> [kind |-> "no API keys found"]]
        ELSE [keys |-> pool, index |-> 0, err |-> NoErr]

\* GetNextKey with the cursor left where it is
GetNextKeyStuck(ks, idx) == [key |-> ks[idx + 1], index |-> idx]

\* GetNextKey with the cursor moved on by two
GetNextKeySkip(ks, idx) == [key |-> ks[idx + 1], index |-> (idx + 2) % Len(ks)]

\* APIKeyManager.GetNextKey: the key at the cursor, and the cursor moved on
GetNextKey(ks, idx) == [key |-> ks[idx + 1], index |-> (idx + 1) % Len(ks)]

\* environments with the first k numbered variables set; with none or one
\* of them also with the singular GOOGLE_API_KEY; and one that gives the
\* same key twice
EnvSet ==
    {[numbered |-> [i \in 1..MaxEnvKeys |-> IF i <= k THEN Key(i) ELSE Unset],
      single |-> s] : k \in 0..MaxKeys, s \in {Unset}}
    \cup
    {[numbered |-> [i \in 1..MaxEnvKeys |-> IF i <= k THEN Key(i) ELSE Unset],
      single |-> Key(0)] : k \in 0..1}
    \cup
    {[numbered |-> [i \in 1..MaxEnvKeys |-> IF i <= 2 THEN Key(1) ELSE Unset],
      single |-> Unset]}

\* every value the variables can be given: unset or empty, a key, the same
\* key again, white space; the numbered variables past MaxKeys stay unset
EnvValues == {Unset, Key(1), Key(2), Blank}

EnvAll ==
    {[numbered |-> [i \in 1..MaxEnvKeys |-> IF i <= MaxKeys THEN f[i] ELSE Unset],
      single |-> s] : f \in [1..MaxKeys -> EnvValues], s \in {Unset, Key(1), Blank}}

-----------------------------------------------------------------------------
(* Documents run through the pipeline *)

SlideNodes(kind) ==
    CASE kind = "noted" -> <<HeadingT, CommentA>>
      [] kind = "bare" -> <<HeadingT, ParagraphX>>

RECURSIVE DocOf(_)
DocOf(kinds) ==
    IF kinds = <<>> THEN <<>>
    ELSE IF Len(kinds) = 1 THEN SlideNodes(kinds[1])
    ELSE SlideNodes(kinds[1]) \o <<ThematicBreak>> \o DocOf(Tail(kinds))

RunDocs == {DocOf(ks) : ks \in SeqsUpTo({"noted", "bare"}, MaxSlides)}

-----------------------------------------------------------------------------
(* Outcomes of the collaborators *)

\* error texts of GenerateContent, by the signal they carry
RetryableSignals == {"429", "500", "503", "quota", "rate"}
GenErrors == RetryableSignals \cup {"400 bad request"}

\* the test on the error text that lets every error through as retryable
IsRetryableAny(e) == TRUE

\* the test of generateGeminiTTS on the error text
IsRetryable(e) == e \in RetryableSignals

AttemptOutcomes ==
    {[step |-> "NewClient", err |-> "client"]}
    \cup {[step |-> "GenerateContent", err |-> e] : e \in GenErrors}
    \cup {[step |-> "result", err |-> e] : e \in {"no candidates", "no parts", "no inline data"}}
    \cup {[step |-> "writeWAVFile", err |-> e] : e \in {"create", "write"}}
    \cup {[step |-> "saved", err |-> "nil"]}

\* the bodies a 200 response of the local service can have
Bodies == {<<82, 73>>, <<1>>}

\* the audio bytes of a remote response
InlinePcm == <<0, 1>>

LocalOutcomes ==
    {[step |-> "request", err |-> e] : e \in {"connect", "status", "read body"}}
    \cup {[step |-> "WriteFile", err |-> "write", body |-> b] : b \in Bodies}
    \cup {[step |-> "saved", err |-> "nil", body |-> b] : b \in Bodies}

\* the error of a call made with a context that is done
CtxErr == "context canceled"

\* genai.NewClient(ctx, ...) and client.Models.GenerateContent(ctx, ...):
\* with the context done the client may still fail to be created, and the
\* request ends with the context's error
AttemptOutcomesUnder(done) ==
    IF done
    THEN {o \in AttemptOutcomes : o.step = "NewClient"}
         \cup {[step |-> "GenerateContent", err |-> CtxErr]}
    ELSE AttemptOutcomes

\* http.NewRequestWithContext(ctx, ...) and client.Do: with the context done
\* the request ends with the context's error
LocalOutcomesUnder(done) ==
    IF done THEN {[step |-> "request", err |-> CtxErr]} ELSE LocalOutcomes

\* the kind of an attempt's outcome, as the remote service and the file
\* system produced it
OutcomeClass(o) ==
    CASE o.step = "GenerateContent" /\ o.err \in RetryableSignals -> "signal"
      [] o.step = "GenerateContent" /\ o.err \notin RetryableSignals -> "fatal"
      [] o.step = "result" -> "empty"
      [] o.step \in {"NewClient", "writeWAVFile", "WriteFile", "request"} -> "local"
      [] o.step = "saved" -> "ok"

NoOutcome == [step |-> "none", err |-> "nil"]

NoRequest ==
    [slide |-> 0, err |-> NoErr, attempts |-> 0, tried |-> <<>>,
     outcome |-> NoOutcome, cursor |-> 0]

\* every slide's audio written under the name of slide 1
WavNameShared(n) == Sprintf03(1) \o <<".", "w", "a", "v">>

\* line 367: the name of the audio file of slide n in the output directory
WavName(n) == Sprintf03(n) \o <<".", "w", "a", "v">>

\* the file of slide n created or replaced: written as state s ("wav" by
\* writeWAVFile, "raw" by os.WriteFile, "partial" by a write that failed)
\* from the bytes d
WriteFile(fs, n, s, d) ==
    {f \in fs : f.name # WavName(n)}
    \cup {[name |-> WavName(n), slide |-> n, state |-> s, data |-> d]}

\* the local path that puts the response through the WAV writer
SaveLocalAsWav(fs, n, body) == WriteFile(fs, n, "wav", body \o <<0, 0>>)

\* line 472: the body of the response written as it is
SaveLocal(fs, n, body) == WriteFile(fs, n, "raw", body)

-----------------------------------------------------------------------------
(* generateGeminiTTS: one pass of the loop over the keys *)

\* a response without inline data that ends the call instead of the attempt
NoInlineDataFatal ==
    [next |-> "return", lastErr |-> NoErr,
     ret |-> [kind |-> "no inline data found"], file |-> "keep"]

\* lines 442-446: a response whose first part has no inline data
NoInlineData ==
    [next |-> "continue", lastErr |-> [kind |-> "no inline data found"],
     ret |-> NoErr, file |-> "keep"]

\* what one attempt does with its outcome: go on to the next key with
\* lastErr set, or return; and what it leaves of the output file
AttemptResult(o) ==
    CASE o.step = "NewClient" ->
           [next |-> "continue", lastErr |-> [kind |-> "client"],
            ret |-> NoErr, file |-> "keep"]
      [] o.step = "GenerateContent" /\ IsRetryable(o.err) ->
           [next |-> "continue", lastErr |-> [kind |-> o.err],
            ret |-> NoErr, file |-> "keep"]
      [] o.step = "GenerateContent" /\ ~IsRetryable(o.err) ->
           [next |-> "return", lastErr |-> NoErr,
            ret |-> [kind |-> "error generating TTS", cause |-> [kind |-> o.err]],
            file |-> "keep"]
      [] o.step = "result" /\ o.err \in {"no candidates", "no parts"} ->
           [next |-> "continue", lastErr |-> [kind |-> "no audio data found"],
            ret |-> NoErr, file |-> "keep"]
      [] o.step = "result" /\ o.err = "no inline data" -> NoInlineData
      [] o.step = "writeWAVFile" /\ o.err = "create" ->
           [next |-> "continue", lastErr |-> [kind |-> "create file"],
            ret |-> NoErr, file |-> "keep"]
      [] o.step = "writeWAVFile" /\ o.err = "write" ->
           [next |-> "continue", lastErr |-> [kind |-> "failed to write audio data"],
            ret |-> NoErr, file |-> "partial"]
      [] o.step = "saved" ->
           [next |-> "return", lastErr |-> NoErr, ret |-> NoErr, file |-> "wav"]

\* the error after the loop without the error of the last attempt
ExhaustedErrBare(le) == [kind |-> "failed after trying all API keys", cause |-> NoErr]

\* the error returned when the loop over the keys runs out
ExhaustedErr(le) == [kind |-> "failed after trying all API keys", cause |-> le]

\* a slide loop that gives up at the first slide whose synthesis fails
AfterSlideAbort(err) ==
    /\ skipped' = IF err # NoErr THEN skipped \cup {notes[slide].SlideNumber}
                  ELSE skipped
    /\ IF err # NoErr
       THEN slide' = slide /\ pc' = "done" /\ runErr' = err
       ELSE /\ slide' = slide + 1
            /\ IF slide + 1 > Len(notes)
               THEN pc' = "done" /\ runErr' = NoErr
               ELSE pc' = pc /\ runErr' = runErr

\* the slide loop of runTTSGeneration after a synthesis call returned err:
\* a failure is a warning and the loop goes on
\* the loop that passes over the slide after the one it has finished
AfterSlideSkip(err) ==
    /\ skipped' = IF err # NoErr THEN skipped \cup {notes[slide].SlideNumber}
                  ELSE skipped
    /\ slide' = slide + 2
    /\ IF slide + 2 > Len(notes)
       THEN pc' = "done" /\ runErr' = NoErr
       ELSE pc' = pc /\ runErr' = runErr

AfterSlide(err) ==
    /\ skipped' = IF err # NoErr THEN skipped \cup {notes[slide].SlideNumber}
                  ELSE skipped
    /\ slide' = slide + 1
    /\ IF slide + 1 > Len(notes)
       THEN pc' = "done" /\ runErr' = NoErr
       ELSE pc' = pc /\ runErr' = runErr

\* the checks run makes on its arguments before anything else
ArgOutcomes ==
    {"ok", "usage", "-lang is required", "invalid language",
     "markdown file does not exist", "not a markdown file"}

StatusOK == 200

\* no probe made
NoProbe == [conn |-> "none", status |-> 0]

\* what GET /health can give: no connection, or a response with a status
HealthOutcomes ==
    {[conn |-> "refused", status |-> 0]}
    \cup {[conn |-> "ok", status |-> c] : c \in {200, 204, 404, 503}}

\* checkKokoVoxHealth that only looks at the connection
checkKokoVoxHealthLax(h) ==
    IF h.conn # "ok" THEN [kind |-> "failed to connect to KokoVox service"]
    ELSE NoErr

\* checkKokoVoxHealth: an error unless the service answers 200
checkKokoVoxHealth(h) ==
    IF h.conn # "ok" THEN [kind |-> "failed to connect to KokoVox service"]
    ELSE IF h.status # StatusOK
    THEN [kind |-> "KokoVox service returned status", status |-> h.status]
    ELSE NoErr

\* what run returns once runTTSGeneration has returned e
runResult(e) ==
    IF e # NoErr THEN [kind |-> "TTS generation failed", cause |-> e] ELSE NoErr

-----------------------------------------------------------------------------
(* run and runTTSGeneration, step by step *)

Languages == {"ja", "en"}

\* no manifest written
NoFile == [written |-> FALSE, entries |-> <<>>]

\* a track that has not started: where it is, the error it sends, what
\* os.Stat said of its directory, and the functions it has called
TrackOff == [pc |-> "off", err |-> NoErr, dir |-> "unchecked", calls |-> {}]

\* the stage not entered
StageIdle ==
    /\ stage = "none" /\ stagePc = "off"
    /\ track = [l \in Languages |-> TrackOff]
    /\ resultChan = <<>> /\ recvd = <<>>
    /\ jaErr = NoErr /\ enErr = NoErr
    /\ stageErr = NoErr /\ stageWarn = "none"

\* createVideo not entered
VideoIdle ==
    /\ vpc = "off"
    /\ slideFiles = <<>> /\ vi = 1 /\ order = <<>>
    /\ clips = {} /\ filelist = NoFile /\ concat = "not run"
    /\ videoErr = NoErr /\ combineErr = NoErr

\* no call of writeWAVFile
NoWav == [pcmData |-> <<>>, channels |-> 0, sampleRate |-> 0, bitsPerSample |-> 0]
NoWavFile == [written |-> FALSE, NumChannels |-> 0, SampleRate |-> 0,
              BitDepth |-> 0, Buf |-> <<>>, Reads |-> {}, Data |-> <<>>]

\* no config command run
NoCmd == [op |-> "none", key |-> <<>>, n |-> 0]

\* run of the workflow not entered
NoWorkflow == [pc |-> "off", flags |-> {}, gemini |-> FALSE, started |-> <<>>,
               returns |-> <<>>, ret |-> NoErr]

\* the context live, no configuration saved, writeWAVFile not called
AuxIdle ==
    /\ cancelled = FALSE
    /\ cfgKeys = <<>> /\ cfgLegacy = <<>> /\ cmd = NoCmd
    /\ wavIn = NoWav /\ wavOut = NoWavFile /\ wf = NoWorkflow

\* run not entered
NoRun ==
    /\ doc = <<>>
    /\ env = [numbered |-> [i \in 1..MaxEnvKeys |-> Unset], single |-> Unset]
    /\ useGemini = FALSE
    /\ pc = "off"

Idle ==
    /\ keys = <<>> /\ index = 0
    /\ notes = <<>> /\ parseErr = NoErr
    /\ slide = 1 /\ keyAttempt = 0 /\ lastErr = NoErr
    /\ files = {} /\ tried = <<>> /\ last = NoRequest
    /\ skipped = {} /\ runErr = NoErr
    /\ health = NoProbe /\ exitErr = NoErr

Init ==
    /\ doc \in RunDocs
    /\ env \in EnvSet
    /\ useGemini \in BOOLEAN
    /\ pc = "run"
    /\ Idle
    /\ StageIdle /\ images = {} /\ VideoIdle /\ AuxIdle

\* run, up to its call of runTTSGeneration: the arguments are checked, and
\* with the local backend the service is probed; any failure is returned
Run ==
    /\ pc = "run"
    /\ \E v \in ArgOutcomes, h \in HealthOutcomes :
         LET probed == v = "ok" /\ ~useGemini
             herr == checkKokoVoxHealth(h)
         IN  /\ health' = IF probed THEN h ELSE health
             /\ IF v # "ok"
                THEN pc' = "aborted" /\ exitErr' = [kind |-> v]
                ELSE IF probed /\ herr # NoErr
                THEN pc' = "aborted" /\ exitErr' = herr
                ELSE pc' = "start" /\ exitErr' = exitErr
    /\ UNCHANGED <<doc, env, useGemini, keys, index, notes, parseErr, slide,
                   keyAttempt, lastErr, files, tried, last, skipped, runErr>>
    /\ UNCHANGED <<stageVars, videoVars, auxVars>>

\* lines 333-339: the key manager, with the remote backend only
LoadKeys ==
    /\ pc = "start"
    /\ IF useGemini
       THEN LET m == NewAPIKeyManager(env) IN
            /\ keys' = m.keys
            /\ index' = m.index
            /\ IF m.err # NoErr
               THEN pc' = "done" /\ runErr' = m.err
               ELSE pc' = "read" /\ runErr' = runErr
       ELSE pc' = "read" /\ UNCHANGED <<keys, index, runErr>>
    /\ UNCHANGED <<doc, env, useGemini, notes, parseErr, slide, keyAttempt,
                   lastErr, files, tried, last, skipped>>
    /\ UNCHANGED <<health, exitErr, stageVars, videoVars, auxVars>>

\* lines 341-350: the markdown file is read and the output directory made
ReadFile ==
    /\ pc = "read"
    /\ \E ok \in BOOLEAN :
         IF ok THEN pc' = "mkdir" /\ runErr' = runErr
         ELSE pc' = "done" /\ runErr' = [kind |-> "failed to read markdown file"]
    /\ UNCHANGED <<doc, env, useGemini, keys, index, notes, parseErr, slide,
                   keyAttempt, lastErr, files, tried, last, skipped>>
    /\ UNCHANGED <<health, exitErr, stageVars, videoVars, auxVars>>

MkdirAll ==
    /\ pc = "mkdir"
    /\ \E ok \in BOOLEAN :
         IF ok THEN pc' = "extract" /\ runErr' = runErr
         ELSE pc' = "done" /\ runErr' = [kind |-> "failed to create output directory"]
    /\ UNCHANGED <<doc, env, useGemini, keys, index, notes, parseErr, slide,
                   keyAttempt, lastErr, files, tried, last, skipped>>
    /\ UNCHANGED <<health, exitErr, stageVars, videoVars, auxVars>>

\* the run that takes an empty note sequence for a finished job
ExtractNotesLax ==
    /\ pc = "extract"
    /\ LET r == extractNotesFromMarkdown(doc) IN
       /\ notes' = r.notes
       /\ parseErr' = r.err
       /\ IF r.err # NoErr
          THEN pc' = "done" /\ runErr' = r.err
          ELSE IF Len(r.notes) = 0
          THEN pc' = "done" /\ runErr' = NoErr
          ELSE pc' = "slides" /\ runErr' = runErr
    /\ UNCHANGED <<doc, env, useGemini, keys, index, slide, keyAttempt,
                   lastErr, files, tried, last, skipped>>
    /\ UNCHANGED <<health, exitErr, stageVars, videoVars, auxVars>>

\* lines 352-359: the notes, or the end of the run
ExtractNotes ==
    /\ pc = "extract"
    /\ LET r == extractNotesFromMarkdown(doc) IN
       /\ notes' = r.notes
       /\ parseErr' = r.err
       /\ IF r.err # NoErr
          THEN pc' = "done" /\ runErr' = r.err
          ELSE IF Len(r.notes) = 0
          THEN pc' = "done" /\ runErr' = [kind |-> "no notes found in markdown file"]
          ELSE pc' = "slides" /\ runErr' = runErr
    /\ UNCHANGED <<doc, env, useGemini, keys, index, slide, keyAttempt,
                   lastErr, files, tried, last, skipped>>
    /\ UNCHANGED <<health, exitErr, stageVars, videoVars, auxVars>>

\* lines 369-373 and 387-462: one attempt of generateGeminiTTS for the
\* current slide, with the return of the call and the step of the slide
\* loop when the attempt is the call's last
GeminiAttempt ==
    /\ pc = "slides" /\ useGemini
    /\ slide <= Len(notes)
    /\ keyAttempt < Len(keys)
    /\ \E o \in AttemptOutcomesUnder(cancelled) :
         LET got == GetNextKey(keys, index)
             r == AttemptResult(o)
             n == notes[slide].SlideNumber
             used == Append(tried, [key |-> got.key, at |-> index,
                                    class |-> OutcomeClass(o)])
             over == r.next = "continue" /\ keyAttempt + 1 >= Len(keys)
             err == IF over THEN ExhaustedErr(r.lastErr) ELSE r.ret
         IN  /\ index' = got.index
             /\ files' = CASE r.file = "keep" -> files
                           [] r.file = "wav" -> WriteFile(files, n, "wav", InlinePcm)
                           [] OTHER -> WriteFile(files, n, r.file, <<>>)
             /\ IF r.next = "continue" /\ ~over
                THEN /\ keyAttempt' = keyAttempt + 1
                     /\ lastErr' = r.lastErr
                     /\ tried' = used
                     /\ last' = NoRequest
                     /\ UNCHANGED <<skipped, slide, pc, runErr>>
                ELSE /\ keyAttempt' = 0
                     /\ lastErr' = NoErr
                     /\ tried' = <<>>
                     /\ last' = [slide |-> n, err |-> err,
                                 attempts |-> keyAttempt + 1, tried |-> used,
                                 outcome |-> o, cursor |-> got.index]
                     /\ AfterSlide(err)
    /\ UNCHANGED <<doc, env, useGemini, keys, notes, parseErr>>
    /\ UNCHANGED <<health, exitErr, stageVars, videoVars, auxVars>>

\* lines 374-378 and 465-480: generateLocalTTSToFile for the current slide
LocalTTS ==
    /\ pc = "slides" /\ ~useGemini
    /\ slide <= Len(notes)
    /\ \E o \in LocalOutcomesUnder(cancelled) :
         LET n == notes[slide].SlideNumber
             err == IF o.step = "saved" THEN NoErr
                    ELSE [kind |-> o.step, cause |-> [kind |-> o.err]]
         IN  /\ files' = CASE o.step = "saved" -> SaveLocal(files, n, o.body)
                           [] o.step = "WriteFile" -> WriteFile(files, n, "partial", <<>>)
                           [] OTHER -> files
             /\ last' = [slide |-> n, err |-> err, attempts |-> 1, tried |-> <<>>,
                         outcome |-> o, cursor |-> index]
             /\ AfterSlide(err)
    /\ UNCHANGED <<doc, env, useGemini, keys, index, notes, parseErr,
                   keyAttempt, lastErr, tried>>
    /\ UNCHANGED <<health, exitErr, stageVars, videoVars, auxVars>>

Next ==
    \/ Run
    \/ LoadKeys
    \/ ReadFile
    \/ MkdirAll
    \/ ExtractNotes
    \/ GeminiAttempt
    \/ LocalTTS

Spec == Init /\ [][Next]_vars

-----------------------------------------------------------------------------
(* The parser alone, on every document of Docs *)

InitParse ==
    /\ doc \in Docs
    /\ env = [numbered |-> [i \in 1..MaxEnvKeys |-> Unset], single |-> Unset]
    /\ useGemini = FALSE
    /\ pc = "parse"
    /\ Idle
    /\ StageIdle /\ images = {} /\ VideoIdle /\ AuxIdle

ParseDocument ==
    /\ pc = "parse"
    /\ LET r == extractNotesFromMarkdown(doc) IN
       /\ notes' = r.notes
       /\ parseErr' = r.err
    /\ pc' = "parsed"
    /\ UNCHANGED <<doc, env, useGemini, keys, index, slide, keyAttempt,
                   lastErr, files, tried, last, skipped, runErr>>
    /\ UNCHANGED <<health, exitErr, stageVars, videoVars, auxVars>>

NextParse == ParseDocument

SpecParse == InitParse /\ [][NextParse]_vars

-----------------------------------------------------------------------------
(* The key manager alone, on every environment of EnvAll *)

InitKeys ==
    /\ doc = <<>>
    /\ env \in EnvAll
    /\ useGemini = TRUE
    /\ pc = "start"
    /\ Idle
    /\ StageIdle /\ images = {} /\ VideoIdle /\ AuxIdle

NextKeys == LoadKeys

SpecKeys == InitKeys /\ [][NextKeys]_vars

-----------------------------------------------------------------------------
(* The two-track stages: runVideoCreation and runMarpGeneration *)

\* the checks a stage makes before it starts its tracks
PreOutcomes(st) ==
    IF st = "video" THEN {"ok", "dist directory does not exist"}
    ELSE {"ok", "slide-ja.md not found", "slide-en.md not found",
          "failed to create dist/ja directory", "failed to create dist/en directory"}

\* what createVideo and createCombinedVideo can return
CreateVideoReturns ==
    {"nil", "failed to create output directory", "failed to find slides",
     "no slide images found"}

CombineReturns ==
    {"nil", "failed to create file list", "failed to get absolute path",
     "error creating combined video"}

\* the commands of generateMarpFiles, and "ok" when all three succeed
MarpOutcomes == {"ok", "pdf", "image", "notes"}

\* generateMarpFiles: the first command that fails gives the error
generateMarpFiles(o) ==
    CASE o = "pdf" -> [kind |-> "PDF generation failed"]
      [] o = "image" -> [kind |-> "image generation failed"]
      [] o = "notes" -> [kind |-> "notes generation failed"]
      [] OTHER -> NoErr

\* a track of runVideoCreation that reports a missing directory as a failure
videoTrackStrict(found, cv, cc) ==
    IF ~found THEN [kind |-> "directory not found"]
    ELSE IF cv # "nil" THEN [kind |-> cv]
    ELSE IF cc # "nil" THEN [kind |-> cc]
    ELSE NoErr

\* what a track of runVideoCreation sends: nothing to do without the
\* language's directory, else createVideo's error, else that of
\* createCombinedVideo
videoTrack(found, cv, cc) ==
    IF ~found THEN NoErr
    ELSE IF cv # "nil" THEN [kind |-> cv]
    ELSE IF cc # "nil" THEN [kind |-> cc]
    ELSE NoErr

\* what the tracks of a stage can send
TrackResults(st) ==
    IF st = "video"
    THEN {videoTrack(f, cv, cc) : f \in BOOLEAN, cv \in CreateVideoReturns,
                                  cc \in CombineReturns}
    ELSE {generateMarpFiles(o) : o \in MarpOutcomes}

\* the functions a track of runVideoCreation calls: none without the
\* directory, createCombinedVideo only after createVideo returned nil
videoCalls(found, cv) ==
    IF ~found THEN {}
    ELSE IF cv # "nil" THEN {"createVideo"}
    ELSE {"createVideo", "createCombinedVideo"}

\* the runs of a track: the error it will send, with what it did
TrackRuns(st) ==
    IF st = "video"
    THEN {[err |-> videoTrack(f, cv, cc),
           dir |-> IF f THEN "found" ELSE "missing",
           calls |-> videoCalls(f, cv)] :
             f \in BOOLEAN, cv \in CreateVideoReturns, cc \in CombineReturns}
    ELSE {[err |-> generateMarpFiles(o), dir |-> "unchecked",
           calls |-> {"generateMarpFiles"}] : o \in MarpOutcomes}

\* the closing report that fails as soon as one track failed
JoinResultEither(ja, en) ==
    IF ja # NoErr \/ en # NoErr
    THEN [err |-> [kind |-> "both failed", ja |-> ja, en |-> en], warn |-> "none"]
    ELSE [err |-> NoErr, warn |-> "none"]

\* the closing report of a stage: an error when both tracks failed, a
\* warning that names the track when one did
JoinResult(ja, en) ==
    IF ja # NoErr /\ en # NoErr
    THEN [err |-> [kind |-> "both failed", ja |-> ja, en |-> en], warn |-> "none"]
    ELSE IF ja # NoErr THEN [err |-> NoErr, warn |-> "ja"]
    ELSE IF en # NoErr THEN [err |-> NoErr, warn |-> "en"]
    ELSE [err |-> NoErr, warn |-> "none"]

InitStage ==
    /\ NoRun /\ Idle /\ AuxIdle
    /\ images = {} /\ VideoIdle
    /\ stage \in {"video", "marp"}
    /\ stagePc = "check"
    /\ track = [l \in Languages |-> TrackOff]
    /\ resultChan = <<>> /\ recvd = <<>>
    /\ jaErr = NoErr /\ enErr = NoErr
    /\ stageErr = NoErr /\ stageWarn = "none"

\* the stage up to its go statements: a failed check is returned, else
\* both tracks are started
StartTracks ==
    /\ stagePc = "check"
    /\ \E o \in PreOutcomes(stage) :
         IF o # "ok"
         THEN /\ stagePc' = "done"
              /\ stageErr' = [kind |-> o]
              /\ track' = track
         ELSE /\ stagePc' = "join"
              /\ stageErr' = stageErr
              /\ track' = [l \in Languages |-> [TrackOff EXCEPT !.pc = "running"]]
    /\ UNCHANGED <<stage, resultChan, recvd, jaErr, enErr, stageWarn>>
    /\ UNCHANGED <<ttsVars, videoVars, auxVars>>

\* a result channel with room for one result
ChanCapOne == 2 - 1

\* make(chan result, 2)
ChanCap == 2

\* the goroutine of language l up to its send: the work, on whichever path
TrackRun(l) ==
    /\ track[l].pc = "running"
    /\ \E r \in TrackRuns(stage) :
         track' = [track EXCEPT ![l] = [pc |-> "sending", err |-> r.err,
                                        dir |-> r.dir, calls |-> r.calls]]
    /\ UNCHANGED <<stage, stagePc, resultChan, recvd, jaErr, enErr, stageErr,
                   stageWarn>>
    /\ UNCHANGED <<ttsVars, videoVars, auxVars>>

\* resultChan <- result{l, err}, the last statement of the goroutine: it
\* goes through when the channel has room and waits when it has none
TrackSend(l) ==
    /\ track[l].pc = "sending"
    /\ Len(resultChan) < ChanCap
    /\ track' = [track EXCEPT ![l].pc = "sent"]
    /\ resultChan' = Append(resultChan, [language |-> l, err |-> track[l].err])
    /\ UNCHANGED <<stage, stagePc, recvd, jaErr, enErr, stageErr, stageWarn>>
    /\ UNCHANGED <<ttsVars, videoVars, auxVars>>

\* one pass of the receiving loop, and after the second the closing report
Receive ==
    /\ stagePc = "join"
    /\ Len(recvd) < 2
    /\ resultChan # <<>>
    /\ LET res == Head(resultChan)
           ja == IF res.language = "ja" THEN res.err ELSE jaErr
           en == IF res.language = "ja" THEN enErr ELSE res.err
       IN  /\ resultChan' = Tail(resultChan)
           /\ recvd' = Append(recvd, res.language)
           /\ jaErr' = ja
           /\ enErr' = en
           /\ IF Len(recvd) + 1 = 2
              THEN /\ stagePc' = "done"
                   /\ stageErr' = JoinResult(ja, en).err
                   /\ stageWarn' = JoinResult(ja, en).warn
              ELSE UNCHANGED <<stagePc, stageErr, stageWarn>>
    /\ UNCHANGED <<stage, track>>
    /\ UNCHANGED <<ttsVars, videoVars, auxVars>>

NextStage ==
    \/ StartTracks
    \/ \E l \in Languages : TrackRun(l)
    \/ \E l \in Languages : TrackSend(l)
    \/ Receive

SpecStage == InitStage /\ [][NextStage]_vars

-----------------------------------------------------------------------------
(* File names of the video stage *)

\* the characters of the file names, in the order of their codes
Alphabet ==
    <<"-", ".", "0", "1", "2", "3", "4", "5", "6", "7", "8", "9",
      "a", "d", "e", "g", "i", "j", "l", "m", "n", "p", "s">>

Ord(c) == CHOOSE i \in 1..Len(Alphabet) : Alphabet[i] = c

\* a < b for strings: byte by byte, a proper prefix first
RECURSIVE LessStr(_, _)
LessStr(a, b) ==
    IF b = <<>> THEN FALSE
    ELSE IF a = <<>> THEN TRUE
    ELSE IF Head(a) = Head(b) THEN LessStr(Tail(a), Tail(b))
    ELSE Ord(Head(a)) < Ord(Head(b))

HasSuffix(s, suf) ==
    Len(s) >= Len(suf) /\ SubSeq(s, Len(s) - Len(suf) + 1, Len(s)) = suf

IsDigit(c) == c \in {"0", "1", "2", "3", "4", "5", "6", "7", "8", "9"}

\* the longest run of digits that s ends with
RECURSIVE TrailingDigits(_)
TrailingDigits(s) ==
    IF s = <<>> \/ ~IsDigit(s[Len(s)]) THEN <<>>
    ELSE Append(TrailingDigits(SubSeq(s, 1, Len(s) - 1)), s[Len(s)])

\* strconv.Atoi of a run of digits (the names of the model stay far below
\* the range of int)
RECURSIVE Atoi(_)
Atoi(ds) ==
    IF ds = <<>> THEN 0
    ELSE 10 * Atoi(SubSeq(ds, 1, Len(ds) - 1)) + (Ord(ds[Len(ds)]) - Ord("0"))

SlidePrefix == <<"s", "l", "i", "d", "e", ".">>
PngSuffix == <<".", "p", "n", "g">>

\* a name that the pattern slide.*.png matches
ImageName(mid) == SlidePrefix \o mid \o PngSuffix

\* the language of the track
LangJa == <<"j", "a">>

\* slide-<lang>-NNN.mp4, the clip of slide n
ClipName(language, n) ==
    <<"s", "l", "i", "d", "e", "-">> \o language \o <<"-">> \o Sprintf03(n)
    \o <<".", "m", "p", "4">>

\* extractSlideNumber: the name has to end in slide.<digits>.png
extractSlideNumber(filename) ==
    IF ~HasSuffix(filename, PngSuffix) THEN [ok |-> FALSE, num |-> 0]
    ELSE LET stem == SubSeq(filename, 1, Len(filename) - Len(PngSuffix))
             ds == TrailingDigits(stem)
             before == SubSeq(stem, 1, Len(stem) - Len(ds))
         IN  IF ds = <<>> \/ ~HasSuffix(before, SlidePrefix)
             THEN [ok |-> FALSE, num |-> 0]
             ELSE [ok |-> TRUE, num |-> Atoi(ds)]

\* filepath.Glob: the matching names of a directory, sorted
RECURSIVE Glob(_)
Glob(S) ==
    IF S = {} THEN <<>>
    ELSE LET first == CHOOSE x \in S : \A y \in S : ~LessStr(y, x)
         IN  <<first>> \o Glob(S \ {first})

\* the less function createVideo hands to sort.Slice
SlideLess(a, b) ==
    LET numI == extractSlideNumber(a)
        numJ == extractSlideNumber(b)
    IN  IF ~numI.ok \/ ~numJ.ok THEN LessStr(a, b) ELSE numI.num < numJ.num

\* sort.Slice on a slice of up to 12 elements is an insertion sort: element
\* j moves down while it is less than the one before it
RECURSIVE MoveDown(_, _)
MoveDown(s, j) ==
    IF j > 1 /\ SlideLess(s[j], s[j - 1])
    THEN MoveDown([s EXCEPT ![j] = s[j - 1], ![j - 1] = s[j]], j - 1)
    ELSE s

RECURSIVE InsertionSort(_, _)
InsertionSort(s, i) ==
    IF i > Len(s) THEN s ELSE InsertionSort(MoveDown(s, i), i + 1)

sortSlides(s) == InsertionSort(s, 2)

\* the middle parts of the image names of the model: numbers with and
\* without leading zeros, of one to four digits, and one that is no number
Mids ==
    {<<"1">>, <<"2">>, <<"1", "0">>, <<"0", "0", "1">>, <<"0", "0", "2">>,
     <<"1", "a">>, <<"9", "9", "9">>, <<"1", "0", "0", "0">>}

ImageNames == {ImageName(mid) : mid \in Mids}

ImageSets == {S \in SUBSET ImageNames : Cardinality(S) <= MaxImages}

-----------------------------------------------------------------------------
(* createVideo and createCombinedVideo for one language *)

\* what can become of one slide in createVideo's loop
SlideOutcomes == {"no audio", "duration", "abs", "encoder", "ok"}

\* a loop that returns the error of the slide that failed
SlideStepAbort(o) ==
    IF o = "ok" THEN [next |-> "continue", clip |-> TRUE, err |-> NoErr]
    ELSE [next |-> "return", clip |-> FALSE, err |-> [kind |-> o]]

\* one pass of createVideo's loop: a slide that fails is reported and the
\* loop goes on; a slide that is encoded leaves its clip
SlideStep(o) ==
    IF o = "ok" THEN [next |-> "continue", clip |-> TRUE, err |-> NoErr]
    ELSE [next |-> "continue", clip |-> FALSE, err |-> NoErr]

\* the test that lets createCombinedVideo go on without a clip
NoVideosNever(slideVideos) == FALSE

\* line 172: nothing to combine
NoVideos(slideVideos) == Len(slideVideos) = 0

CombineOutcomes == {"ok", "create", "abs", "ffmpeg"}

InitVideo ==
    /\ NoRun /\ Idle /\ StageIdle /\ AuxIdle
    /\ images \in ImageSets
    /\ vpc = "start"
    /\ slideFiles = <<>> /\ vi = 1 /\ order = <<>>
    /\ clips = {} /\ filelist = NoFile /\ concat = "not run"
    /\ videoErr = NoErr /\ combineErr = NoErr

\* a track that goes on to the concatenation whatever createVideo returned
CreateVideoStartLax ==
    /\ vpc = "start"
    /\ \E o \in {"ok", "mkdir", "glob"} :
         LET found == Glob(images) IN
         IF o = "mkdir"
         THEN /\ vpc' = "done" /\ slideFiles' = slideFiles
              /\ videoErr' = [kind |-> "failed to create output directory"]
         ELSE IF o = "glob"
         THEN /\ vpc' = "done" /\ slideFiles' = slideFiles
              /\ videoErr' = [kind |-> "failed to find slides"]
         ELSE IF Len(found) = 0
         THEN /\ vpc' = "made" /\ slideFiles' = slideFiles
              /\ videoErr' = [kind |-> "no slide images found"]
         ELSE /\ vpc' = "loop" /\ slideFiles' = sortSlides(found)
              /\ videoErr' = videoErr
    /\ UNCHANGED <<images, vi, order, clips, filelist, concat, combineErr>>
    /\ UNCHANGED <<ttsVars, stageVars, auxVars>>

\* createVideo up to its loop: the output directory, the images, the sort
CreateVideoStart ==
    /\ vpc = "start"
    /\ \E o \in {"ok", "mkdir", "glob"} :
         LET found == Glob(images) IN
         IF o = "mkdir"
         THEN /\ vpc' = "done" /\ slideFiles' = slideFiles
              /\ videoErr' = [kind |-> "failed to create output directory"]
         ELSE IF o = "glob"
         THEN /\ vpc' = "done" /\ slideFiles' = slideFiles
              /\ videoErr' = [kind |-> "failed to find slides"]
         ELSE IF Len(found) = 0
         THEN /\ vpc' = "done" /\ slideFiles' = slideFiles
              /\ videoErr' = [kind |-> "no slide images found"]
         ELSE /\ vpc' = "loop" /\ slideFiles' = sortSlides(found)
              /\ videoErr' = videoErr
    /\ UNCHANGED <<images, vi, order, clips, filelist, concat, combineErr>>
    /\ UNCHANGED <<ttsVars, stageVars, auxVars>>

\* line 89: the audio file createVideo looks for with the image of slide n
AudioName(n) == <<"s", "l", "i", "d", "e", ".">> \o Sprintf03(n) \o <<".", "w", "a", "v">>

\* lines 92-95: what can become of slide n with the audio directory as it
\* is when known, and with any audio directory when not
SlideOutcomesIn(known, dir, n) ==
    IF ~known THEN SlideOutcomes
    ELSE IF AudioName(n) \in dir THEN SlideOutcomes \ {"no audio"}
    ELSE {"no audio"}

\* one pass of createVideo's loop, and its return after the last slide
CreateVideoSlideOn(known) ==
    /\ vpc = "loop"
    /\ vi <= Len(slideFiles)
    /\ LET f == slideFiles[vi]
           n == extractSlideNumber(f)
       IN  \E o \in SlideOutcomesIn(known, {a.name : a \in files}, n.num) :
             LET r == IF n.ok THEN SlideStep(o) ELSE SlideStep("no number") IN
             /\ ~n.ok => o = "ok"
             /\ order' = IF n.ok
                         THEN Append(order, [name |-> f, num |-> n.num, outcome |-> o])
                         ELSE order
             /\ clips' = IF n.ok /\ r.clip
                         THEN clips \cup {ClipName(LangJa, n.num)} ELSE clips
             /\ IF r.next = "return"
                THEN vpc' = "done" /\ videoErr' = r.err /\ vi' = vi
                ELSE /\ vi' = vi + 1
                     /\ videoErr' = videoErr
                     /\ vpc' = IF vi + 1 > Len(slideFiles) THEN "made" ELSE "loop"
    /\ UNCHANGED <<images, slideFiles, filelist, concat, combineErr>>
    /\ UNCHANGED <<ttsVars, stageVars, auxVars>>

\* createVideo's loop over an audio directory of any content
CreateVideoSlide == CreateVideoSlideOn(FALSE)

\* createCombinedVideo, called when createVideo has returned without error
\* (its pattern lies in the directory createVideo's pattern lay in)
CombineVideos ==
    /\ vpc = "made"
    /\ \E o \in CombineOutcomes :
         LET slideVideos == Glob(clips) IN
         IF NoVideos(slideVideos)
         THEN /\ combineErr' = NoErr
              /\ UNCHANGED <<filelist, concat>>
         ELSE CASE o = "create" ->
                     /\ combineErr' = [kind |-> "failed to create file list"]
                     /\ UNCHANGED <<filelist, concat>>
                [] o = "abs" ->
                     /\ combineErr' = [kind |-> "failed to get absolute path"]
                     /\ \E k \in 0..Len(slideVideos) :
                          filelist' = [written |-> TRUE,
                                       entries |-> SubSeq(slideVideos, 1, k)]
                     /\ concat' = concat
                [] o = "ffmpeg" ->
                     /\ combineErr' = [kind |-> "error creating combined video"]
                     /\ filelist' = [written |-> TRUE, entries |-> slideVideos]
                     /\ concat' = "failed"
                [] o = "ok" ->
                     /\ combineErr' = NoErr
                     /\ filelist' = [written |-> TRUE, entries |-> slideVideos]
                     /\ concat' = "created"
    /\ vpc' = "done"
    /\ UNCHANGED <<images, slideFiles, vi, order, clips, videoErr>>
    /\ UNCHANGED <<ttsVars, stageVars, auxVars>>

NextVideo ==
    \/ CreateVideoStart
    \/ CreateVideoSlide
    \/ CombineVideos

SpecVideo == InitVideo /\ [][NextVideo]_vars

-----------------------------------------------------------------------------
(* Claims about the remote backend (checked under Spec) *)

\* a request of generateGeminiTTS finished in the latest step
Finished == useGemini /\ last.slide # 0

\* the places of the pool that the attempts took their keys from
PlacesOf(attempts) == {attempts[i].at : i \in 1..Len(attempts)}

\* the error text generateGeminiTTS keeps for a failed attempt
ErrOfOutcome(o) ==
    CASE o.step = "NewClient" -> "client"
      [] o.step = "GenerateContent" -> o.err
      [] o.step = "result" /\ o.err = "no inline data" -> "no inline data found"
      [] o.step = "result" /\ o.err # "no inline data" -> "no audio data found"
      [] o.step = "writeWAVFile" /\ o.err = "create" -> "create file"
      [] o.step = "writeWAVFile" /\ o.err = "write" -> "failed to write audio data"
      [] OTHER -> "nil"

\* C1: a request on which every attempt fails with a retryable signal
\* (429, 500, 503, quota, rate) makes exactly K attempts, one with each key
\* of the pool, returns an error, and leaves the cursor where it was before
\* the request.
C1_RetryBound ==
    (Finished /\ \A i \in 1..Len(last.tried) : last.tried[i].class = "signal")
    => /\ last.attempts = Len(keys)
       /\ Len(last.tried) = Len(keys)
       /\ PlacesOf(last.tried) = 0..(Len(keys) - 1)
       /\ \A i \in 1..Len(last.tried) :
             last.tried[i].key = keys[last.tried[i].at + 1]
       /\ last.err # NoErr
       /\ last.cursor = last.tried[1].at
       /\ index = last.cursor

\* C1 witness: a pool of three keys, a request that starts at the second
\* key and fails on every key with a retryable signal
C1_Witness ==
    /\ Finished
    /\ Len(keys) >= 3
    /\ \A i \in 1..Len(last.tried) : last.tried[i].class = "signal"
    /\ last.tried[1].at = 1
    /\ last.err # NoErr

\* C2, as claimed: every failure of an attempt that is neither a retryable
\* signal nor an empty payload ends the loop at that attempt, whatever step
\* it arises in; on the first key exactly one attempt is made and the slide
\* is skipped.
C2_Original ==
    /\ \A i \in 1..Len(tried) : tried[i].class \in {"signal", "empty"}
    /\ Finished =>
         /\ \A i \in 1..(Len(last.tried) - 1) :
              last.tried[i].class \in {"signal", "empty"}
         /\ last.tried[1].class \in {"fatal", "local"}
              => last.attempts = 1 /\ last.slide \in skipped

\* C2, amended: an error of the GenerateContent call that carries no
\* retryable signal ends the loop at that attempt, no further key is tried
\* and that error is returned; on the first key exactly one attempt is made
\* and the slide is skipped.  A failure to create the client or to write
\* the WAV file does not end the loop: the next key is tried while one
\* remains.
C2_NonRetryable ==
    /\ \A i \in 1..Len(tried) : tried[i].class \in {"signal", "empty", "local"}
    /\ Finished =>
         \A i \in 1..Len(last.tried) :
           /\ last.tried[i].class = "fatal" =>
                /\ i = Len(last.tried)
                /\ last.attempts = i
                /\ last.err = [kind |-> "error generating TTS",
                               cause |-> [kind |-> last.outcome.err]]
                /\ last.slide \in skipped
           /\ (last.tried[i].class = "local" /\ i < Len(keys)) => i < Len(last.tried)

\* C2 witness: a non-retryable GenerateContent error on the first key of a
\* pool of several keys
C2_Witness ==
    /\ Finished
    /\ Len(keys) >= 2
    /\ last.tried[1].class = "fatal"
    /\ last.attempts = 1
    /\ last.slide \in skipped

\* the step is an attempt of generateGeminiTTS
Attempted == useGemini /\ (tried' # tried \/ last' \notin {NoRequest, last})

\* the attempt the step made
ThisAttempt ==
    IF last' # NoRequest THEN last'.tried[Len(last'.tried)] ELSE tried'[Len(tried')]

\* C3: every attempt uses the key at the cursor and moves the cursor on by
\* one modulo K, whether it succeeds or fails; the cursor starts at 0 and
\* stays in 0..K-1; after a request of a attempts from cursor c the cursor
\* is (c+a) mod K, and the next request's first attempt uses that key.
C3_Rotation ==
    /\ [](keys # <<>> => index \in 0..(Len(keys) - 1))
    /\ [](pc = "read" => index = 0)
    /\ [](Finished => /\ last.cursor = (last.tried[1].at + last.attempts) % Len(keys)
                      /\ index = last.cursor)
    /\ [][Attempted =>
            /\ ThisAttempt.at = index
            /\ ThisAttempt.key = keys[index + 1]
            /\ index' = (index + 1) % Len(keys)
            /\ (tried = <<>> /\ last # NoRequest) => ThisAttempt.at = last.cursor]_vars

\* C3 witness: a request of two attempts that starts at the last of three
\* keys, wraps around and succeeds
C3_Witness ==
    /\ Finished
    /\ Len(keys) = 3
    /\ last.tried[1].at = 2
    /\ last.attempts = 2
    /\ last.err = NoErr
    /\ index = 1

\* C4: when every key has been tried without success the call fails with
\* an error that carries the error of the last attempt, the slide is
\* skipped and the run goes on with the next slide (or ends without error
\* after the last one).
C4_Exhausted ==
    (Finished /\ Len(last.tried) = Len(keys)
              /\ last.tried[Len(last.tried)].class # "ok")
    => /\ last.err # NoErr
       /\ last.err.cause = [kind |-> ErrOfOutcome(last.outcome)]
       /\ last.tried[Len(last.tried)].class # "fatal"
            => last.err.kind = "failed after trying all API keys"
       /\ last.slide \in skipped
       /\ runErr = NoErr
       /\ IF last.slide < Len(notes)
          THEN pc = "slides" /\ slide = last.slide + 1 /\ keyAttempt = 0
          ELSE pc = "done"

\* C4 witness: the first of two slides fails on every key, the last
\* attempt with another error than the first, and the run stands at the
\* second slide
C4_Witness ==
    /\ Finished
    /\ Len(keys) >= 2
    /\ Len(last.tried) = Len(keys)
    /\ last.tried[1].class = "signal"
    /\ last.outcome.err = "no inline data"
    /\ last.slide = 1
    /\ Len(notes) = 2
    /\ pc = "slides" /\ slide = 2

\* C5: an attempt whose response has no candidates, no parts or no inline
\* data writes no audio file and is retryable: while an untried key is
\* left the request goes on and its next attempt uses such a key;
\* otherwise the request fails as exhausted.
C5_EmptyPayload ==
    [][(Attempted /\ ThisAttempt.class = "empty") =>
          /\ files' = files
          /\ IF keyAttempt + 1 < Len(keys)
             THEN /\ last' = NoRequest
                  /\ pc' = "slides" /\ slide' = slide
                  /\ keyAttempt' = keyAttempt + 1
                  /\ lastErr'.kind \in {"no audio data found", "no inline data found"}
                  /\ index' \notin PlacesOf(tried')
             ELSE last'.err.kind = "failed after trying all API keys"]_vars

\* C5 witness: a request in progress whose latest attempt had an empty
\* payload, with no file written and a key left
C5_Witness ==
    /\ pc = "slides" /\ useGemini
    /\ tried # <<>>
    /\ tried[Len(tried)].class = "empty"
    /\ lastErr.kind = "no inline data found"
    /\ files = {}
    /\ keyAttempt < Len(keys)

\* C8: when extractNotesFromMarkdown fails it returns no SlideNote at all,
\* and runTTSGeneration returns that error with no synthesis request made
\* and no audio file written.
C8_AllOrNothing ==
    parseErr # NoErr =>
      /\ notes = <<>>
      /\ pc = "done"
      /\ runErr = parseErr
      /\ files = {} /\ skipped = {}
      /\ tried = <<>> /\ last = NoRequest

\* C8 witness: the second slide lacks its comment, the first one has one
C8_Witness ==
    /\ parseErr # NoErr
    /\ parseErr.slide = 2
    /\ extractHTMLComment(doc[2]) # <<>>
    /\ pc = "done"

-----------------------------------------------------------------------------
(* Claims about the parser (checked under SpecParse) *)

\* the positions of the separators of document d, with both ends
Cuts(d) == {0, Len(d) + 1} \cup {i \in 1..Len(d) : d[i].kind = "ThematicBreak"}

RECURSIVE Ascending(_)
Ascending(S) ==
    IF S = {} THEN <<>>
    ELSE LET m == CHOOSE x \in S : \A y \in S : x <= y
         IN  <<m>> \o Ascending(S \ {m})

\* the segments of d between its separators, the empty ones included
Segments(d) ==
    LET c == Ascending(Cuts(d))
    IN  [k \in 1..(Len(c) - 1) |-> SubSeq(d, c[k] + 1, c[k + 1] - 1)]

\* the slides of d: its segments that hold a node
SlidesOf(d) == SelectSeq(Segments(d), LAMBDA seg : seg # <<>>)

\* every comment <!-- ... --> written in text t, trimmed, in order; an
\* unclosed one runs to the end of t
RECURSIVE CommentsIn(_)
CommentsIn(t) ==
    LET i == Index(t, CommentOpen) IN
    IF i = -1 THEN <<>>
    ELSE LET rest == SubSeq(t, i + 5, Len(t))
             j == Index(rest, CommentClose)
         IN  IF j = -1 THEN <<TrimSpace(rest)>>
             ELSE <<TrimSpace(SubSeq(rest, 1, j))>>
                  \o CommentsIn(SubSeq(rest, j + 4, Len(rest)))

NonEmpty(bodies) == SelectSeq(bodies, LAMBDA b : b # <<>>)

\* the source text of node n: its lines and, for an HTML block, the line
\* that closes it
SourceText(n) == Concat(n.lines) \o n.closure

\* the non-empty bodies of all the comments written in segment seg, whether
\* in an HTML block or inside a paragraph, in document order
RECURSIVE WrittenComments(_)
WrittenComments(seg) ==
    IF seg = <<>> THEN <<>>
    ELSE NonEmpty(CommentsIn(SourceText(Head(seg)))) \o WrittenComments(Tail(seg))

\* a top-level HTML block that opens with a comment
IsCommentBlock(n) == n.kind = "HTMLBlock" /\ n.HTMLBlockType = HTMLBlockType2

\* what the lines of each top-level comment block of segment seg hold of
\* the block's first comment (the closing line of a block of several lines
\* is not among them), the empty ones left out, in document order
RECURSIVE BlockComments(_)
BlockComments(seg) ==
    IF seg = <<>> THEN <<>>
    ELSE (IF IsCommentBlock(Head(seg))
          THEN NonEmpty(SubSeq(CommentsIn(Concat(Head(seg).lines)), 1, 1))
          ELSE <<>>)
         \o BlockComments(Tail(seg))

Parsed == pc = "parsed"

Numbered(ns, n) == Len(ns) = n /\ \A i \in 1..n : ns[i].SlideNumber = i

\* the bodies, one per line
RECURSIVE Lines(_)
Lines(bodies) ==
    IF Len(bodies) <= 1 THEN (IF bodies = <<>> THEN <<>> ELSE bodies[1])
    ELSE Lines(SubSeq(bodies, 1, Len(bodies) - 1)) \o <<"\n">> \o bodies[Len(bodies)]

\* C6: a document of N slides that each contain at least one
\* non-empty HTML comment yields, without error, N SlideNotes numbered 1..N
\* in document order.
C6_EveryNotedSlide ==
    (Parsed /\ \A k \in 1..Len(SlidesOf(doc)) : WrittenComments(SlidesOf(doc)[k]) # <<>>)
    => parseErr = NoErr /\ Numbered(notes, Len(SlidesOf(doc)))

\* C7: if a slide has no comment, or only comments of white
\* space, extraction fails and the error names the number of the first such
\* slide.
C7_MissingComment ==
    LET sl == SlidesOf(doc)
        bare == {k \in 1..Len(sl) : WrittenComments(sl[k]) = <<>>}
    IN  (Parsed /\ bare # {})
        => /\ parseErr # NoErr
           /\ parseErr.slide \in bare
           /\ \A k \in bare : parseErr.slide <= k

\* C9: the narration of a slide is all the non-empty comment
\* bodies found in its segment, each trimmed, in document order, joined by
\* one newline.
C9_Narration ==
    (Parsed /\ parseErr = NoErr) =>
      \A i \in 1..Len(notes) :
        /\ i <= Len(SlidesOf(doc))
        /\ notes[i].Note = Lines(WrittenComments(SlidesOf(doc)[i]))

\* C10: the slides are numbered 1, 2, 3, ... without gap in document order,
\* and a segment without any node (before the first separator, after the
\* last, between two separators) is dropped before the numbering: the
\* notes are those of the non-empty segments, in order, and an error names
\* a position among the non-empty segments.
C10_Numbering ==
    Parsed =>
      LET sl == SlidesOf(doc) IN
      IF parseErr = NoErr
      THEN /\ Numbered(notes, Len(sl))
           /\ \A i \in 1..Len(sl) : notes[i].Note = Lines(BlockComments(sl[i]))
      ELSE /\ notes = <<>>
           /\ parseErr.slide \in 1..Len(sl)
           /\ BlockComments(sl[parseErr.slide]) = <<>>

\* C10 witness: empty segments between two separators and after the last
\* one, and two numbered slides
C10_Witness ==
    /\ Parsed /\ parseErr = NoErr
    /\ Len(Segments(doc)) > Len(SlidesOf(doc))
    /\ \E i \in 1..(Len(doc) - 1) :
         doc[i].kind = "ThematicBreak" /\ doc[i + 1].kind = "ThematicBreak"
    /\ Len(notes) = 2
    /\ notes[1].Note # notes[2].Note

-----------------------------------------------------------------------------
(* Claims about the run as a whole (checked under Spec) *)

\* the slide numbers of the notes
NoteNumbers == {notes[i].SlideNumber : i \in 1..Len(notes)}

\* C11: when synthesis has failed for every slide of the document (no
\* slide succeeded), runTTSGeneration returns an error to its caller.
C11_ZeroSuccess ==
    (pc = "done" /\ notes # <<>> /\ slide > Len(notes) /\ skipped = NoteNumbers)
    => runErr # NoErr

\* C12: a failed slide never ends the slide loop: the step that ends the
\* synthesis request of a slide, failed or not, is the request of the
\* slide the loop stands at and moves the loop to the next slide, so every
\* slide after a failed one gets its request; runTTSGeneration returns
\* only after the last slide, and then without error although slides
\* failed.
C12_LoopGoesOn ==
    /\ []((pc = "done" /\ notes # <<>>) =>
            /\ slide = Len(notes) + 1
            /\ runErr = NoErr)
    /\ [][(pc = "slides" /\ (slide' # slide \/ pc' # "slides")) =>
            /\ last'.slide = notes[slide].SlideNumber
            /\ (last'.err # NoErr) <=> (last'.slide \in skipped')
            /\ slide' = slide + 1
            /\ notes' = notes
            /\ pc' = IF slide < Len(notes) THEN "slides" ELSE "done"
            /\ runErr' = NoErr]_vars

\* C12 witness: the first of two slides failed, the second one was
\* synthesised, and the run returned without error
C12_Witness ==
    /\ pc = "done" /\ Len(notes) = 2
    /\ skipped = {1}
    /\ last.slide = 2 /\ last.err = NoErr
    /\ \E f \in files : f.slide = 2
    /\ runErr = NoErr

\* the probe found the service unusable
ProbeFailed == health.conn = "refused" \/ (health.conn = "ok" /\ health.status # 200)

\* C13: with the local backend the probe comes first: when it fails (no
\* connection, or a status other than 200) run returns that error and no
\* slide is processed; no synthesis request is made before a probe that
\* succeeded.
C13_ProbeFirst ==
    /\ (~useGemini /\ ProbeFailed) =>
          /\ pc = "aborted"
          /\ exitErr.kind = IF health.conn = "refused"
                            THEN "failed to connect to KokoVox service"
                            ELSE "KokoVox service returned status"
          /\ notes = <<>> /\ slide = 1
          /\ last = NoRequest /\ files = {} /\ skipped = {}
    /\ (~useGemini /\ (pc \in {"start", "read", "mkdir", "extract", "slides", "done"}
                        \/ last # NoRequest \/ files # {} \/ skipped # {})) =>
          health = [conn |-> "ok", status |-> 200]
    /\ (pc = "run") => (health = NoProbe /\ last = NoRequest /\ files = {})

\* C13 witness: the service answered the probe, with a status other than
\* 200, and the run ended there
C13_Witness ==
    /\ ~useGemini
    /\ health.conn = "ok" /\ health.status = 503
    /\ pc = "aborted"
    /\ exitErr.kind = "KokoVox service returned status"

\* no variable of the environment holds a key
NoKeyInEnv == env.single = Unset /\ \A i \in 1..MaxEnvKeys : env.numbered[i] = Unset

\* C14: with the remote backend and no key in the environment,
\* runTTSGeneration fails before the document is read or parsed and before
\* any slide; a key manager with an empty pool never comes to be used.
C14_NoKeys ==
    /\ (useGemini /\ NoKeyInEnv /\ pc \notin {"run", "aborted", "start"}) =>
          /\ pc = "done"
          /\ runErr.kind = "no API keys found"
          /\ notes = <<>> /\ parseErr = NoErr /\ slide = 1
          /\ last = NoRequest /\ tried = <<>> /\ files = {} /\ skipped = {}
    /\ (useGemini /\ pc \in {"read", "mkdir", "extract", "slides"}) => keys # <<>>
    /\ (useGemini /\ pc = "done" /\ runErr.kind # "no API keys found") => keys # <<>>

\* C14 witness: the remote backend, an environment without a key, and the
\* run over with the error of the key manager
C14_Witness ==
    /\ useGemini /\ NoKeyInEnv
    /\ pc = "done"
    /\ runErr.kind = "no API keys found"
    /\ keys = <<>>

-----------------------------------------------------------------------------
(* Claims about the key pool (checked under SpecKeys) *)

\* C15: the pool built by NewAPIKeyManager holds no key twice and no blank
\* entry, whatever values GOOGLE_API_KEY_1..10 and GOOGLE_API_KEY have.
C15_PoolNormalised ==
    /\ \A i \in 1..Len(keys) : TrimSpace(keys[i]) # <<>>
    /\ \A i, j \in 1..Len(keys) : i # j => keys[i] # keys[j]

-----------------------------------------------------------------------------
(* Claims about the two-track stages (checked under SpecStage) *)

\* both tracks have reported
BothSent == \A l \in Languages : track[l].pc = "sent"

\* both tracks reported a failure
BothFailed == \A l \in Languages : track[l].err # NoErr

\* C16, as claimed: the stage returns an error if and only if both tracks
\* reported failure.
C16_Original ==
    stagePc = "done" => ((stageErr # NoErr) <=> (BothSent /\ BothFailed))

\* C16: a stage that started its tracks returns an error if and only if
\* both tracks reported failure; when one track failed it returns without
\* error and its closing warning names that track; the order in which the
\* two results arrive makes no difference.  A stage whose own checks fail
\* returns that error without starting a track.
C16_JoinOfTracks ==
    /\ (stagePc = "done" /\ BothSent) =>
          /\ recvd \in {<<"ja", "en">>, <<"en", "ja">>}
          /\ jaErr = track["ja"].err /\ enErr = track["en"].err
          /\ (stageErr # NoErr) <=> BothFailed
          /\ \A l \in Languages :
               (track[l].err # NoErr /\ ~BothFailed)
               => (stageErr = NoErr /\ stageWarn = l)
    /\ (stagePc = "done" /\ ~BothSent) =>
          /\ stageErr # NoErr
          /\ \A l \in Languages : track[l].pc = "off"
          /\ recvd = <<>>

\* C16 witness: the English track finished first and succeeded, the
\* Japanese one failed, and the stage returned without error
C16_Witness ==
    /\ stagePc = "done"
    /\ recvd = <<"en", "ja">>
    /\ track["ja"].err # NoErr /\ track["en"].err = NoErr
    /\ stageErr = NoErr /\ stageWarn = "ja"

-----------------------------------------------------------------------------
(* Claims about the video stage (checked under SpecVideo) *)

\* the images whose name carries a number
NumberedImages == {f \in images : extractSlideNumber(f).ok}

\* the names of the slides processed so far
Processed == {order[i].name : i \in 1..Len(order)}

\* the slides of the first n places of the sorted slice that carry a number
NumberedUpTo(n) == {i \in 1..n : extractSlideNumber(slideFiles[i]).ok}

\* C17: a failure that concerns one slide (no audio file, duration not
\* read, encoder failed) skips that slide only: every slide after it is
\* still processed, and createVideo returns no error because of it.
C17_SlideFailureSkips ==
    /\ videoErr # NoErr => order = <<>>
    /\ vpc = "loop" => Len(order) = Cardinality(NumberedUpTo(vi - 1))
    /\ (vpc \in {"made", "done"} /\ videoErr = NoErr) =>
          /\ Processed = NumberedImages
          /\ Len(order) = Cardinality(NumberedImages)

\* C17 witness: three slides, the first without audio, the second failed
\* in the encoder, the third encoded, and createVideo returned no error
C17_Witness ==
    /\ vpc \in {"made", "done"} /\ videoErr = NoErr
    /\ Len(order) = 3
    /\ order[1].outcome = "no audio"
    /\ order[2].outcome = "encoder"
    /\ order[3].outcome = "ok"
    /\ clips = {ClipName(LangJa, order[3].num)}

\* C18: createVideo processes the slide images in ascending order of the
\* number in the file name: of any set of matching names, the slide
\* numbered a is processed before the slide numbered b whenever a < b.
C18_NumericOrder ==
    \A i, j \in 1..Len(order) : i < j => ~(order[j].num < order[i].num)

\* the slide number of a clip of this run
ClipNumber(name) ==
    CHOOSE n \in {order[i].num : i \in 1..Len(order)} : ClipName(LangJa, n) = name

\* C19: the manifest lists the clips of the language in ascending order of
\* their slide numbers, each clip once, for every set of slide numbers.
C19_ManifestOrder ==
    (vpc = "done" /\ filelist.written /\ combineErr = NoErr) =>
       LET e == filelist.entries IN
       /\ Len(e) = Cardinality(clips)
       /\ {e[i] : i \in 1..Len(e)} = clips
       /\ \A i, j \in 1..Len(e) : i < j => ClipNumber(e[i]) < ClipNumber(e[j])

\* C20: without a clip of the language createCombinedVideo returns
\* without error, writes no manifest, does not run the encoder and makes
\* no combined file.
C20_NothingToCombine ==
    (vpc = "done" /\ videoErr = NoErr /\ clips = {}) =>
       /\ combineErr = NoErr
       /\ filelist = NoFile
       /\ concat = "not run"

\* C20 witness: two slides, neither encoded, and createCombinedVideo
\* returned
C20_Witness ==
    /\ vpc = "done" /\ videoErr = NoErr
    /\ Len(order) = 2 /\ clips = {}
    /\ combineErr = NoErr /\ filelist = NoFile /\ concat = "not run"

-----------------------------------------------------------------------------
(* the empty document *)

\* the error of lines 357-359
NoNotesErr == [kind |-> "no notes found in markdown file"]

\* no synthesis request has been made and no audio file written
NoSynthesis == last = NoRequest /\ tried = <<>> /\ keyAttempt = 0 /\ files = {}

\* C26: a document with no slides (no separator, no content) makes
\* extractNotesFromMarkdown return the empty sequence and no error, and
\* runTTSGeneration ends with an error on it before any synthesis request.
C26_EmptyDocument ==
    /\ [](doc = <<>> => NoSynthesis)
    /\ [][pc = "extract" /\ doc = <<>>
            => /\ notes' = <<>> /\ parseErr' = NoErr
               /\ pc' = "done" /\ runErr' = NoNotesErr
               /\ NoSynthesis']_vars

C26_Witness ==
    doc = <<>> /\ pc = "done" /\ notes = <<>> /\ parseErr = NoErr /\ runErr = NoNotesErr

-----------------------------------------------------------------------------
(* one slide at a time *)

\* the attempts a step makes: those of the open request before and after it
AttemptsBefore == tried
AttemptsAfter == IF last' # NoRequest /\ last' # last THEN last'.tried ELSE tried'

\* C25: within one run the slides are taken one after the other in ascending
\* slide number: an attempt belongs to the slide at the loop position, the
\* loop moves to the next slide only with the request of the present one
\* finished and no attempt of it outstanding, every step makes at most one
\* attempt, and the cursor moves only in such a step, by one place.
C25_Sequential ==
    /\ [](\A i, j \in 1..Len(notes) :
             i < j => notes[i].SlideNumber < notes[j].SlideNumber)
    /\ [](tried # <<>> => /\ pc = "slides" /\ slide <= Len(notes)
                          /\ Len(tried) = keyAttempt)
    /\ [][slide' # slide
            => /\ slide' = slide + 1
               /\ tried' = <<>> /\ keyAttempt' = 0
               /\ last' # NoRequest
               /\ last'.slide = notes[slide].SlideNumber]_vars
    /\ [][tried' # <<>> => slide' = slide /\ tried' = Append(tried, ThisAttempt)]_vars
    /\ [][index' # index \/ (pc = "slides" /\ (tried' # tried \/ last' # last))
            => /\ pc = "slides"
               /\ useGemini => /\ Len(AttemptsAfter) = Len(AttemptsBefore) + 1
                                /\ index' = (index + 1) % Len(keys)
               /\ ~useGemini => index' = index /\ last'.attempts = 1]_vars

C25_Witness ==
    /\ pc = "slides" /\ slide = 2 /\ Len(tried) = 2
    /\ \E f \in files : f.slide = notes[1].SlideNumber

-----------------------------------------------------------------------------
(* the two tracks and the channel *)

\* how many results of language l are in the channel or received
ResultsOf(l) ==
    Cardinality({i \in 1..Len(resultChan) : resultChan[i].language = l})
    + Cardinality({i \in 1..Len(recvd) : recvd[i] = l})

\* the coordinator has left the receiving loop and reported
Reported == stagePc = "done" /\ recvd # <<>>

\* C30: in both stages each track sends exactly one result on every path,
\* the send never waits for room in the channel, the coordinator reports
\* only with both results received and both tracks at their end, and as
\* long as it has not reported some step can be taken, in every
\* interleaving.
C30_Barrier ==
    /\ Len(resultChan) <= ChanCap
    /\ \A l \in Languages :
         /\ track[l].pc = "sending" => Len(resultChan) < ChanCap
         /\ ResultsOf(l) = IF track[l].pc = "sent" THEN 1 ELSE 0
    /\ Reported => /\ Len(recvd) = 2 /\ resultChan = <<>>
                   /\ \A l \in Languages : track[l].pc = "sent"
    /\ stagePc # "done" => ENABLED NextStage

C30_Witness ==
    /\ Reported /\ recvd = <<"en", "ja">>
    /\ jaErr # NoErr /\ enErr = NoErr

-----------------------------------------------------------------------------
(* the attempts of one request *)

\* C29, as claimed: every finished request made at least one and at most
\* K attempts (K the size of the pool), tried no key twice, and made no
\* attempt after its first successful one.
C29_BoundedAttempts ==
    Finished =>
       /\ last.attempts \in 1..Len(keys)
       /\ Len(last.tried) = last.attempts
       /\ \A i, j \in 1..Len(last.tried) :
             i # j => last.tried[i].key # last.tried[j].key
       /\ \A i \in 1..(Len(last.tried) - 1) : last.tried[i].class # "ok"

-----------------------------------------------------------------------------
(* the audio file of a slide *)

\* the file names of the README
Wav001 == <<"0", "0", "1", ".", "w", "a", "v">>
Wav002 == <<"0", "0", "2", ".", "w", "a", "v">>

\* C28: the audio of slide n is written to NNN.wav of the output directory,
\* n in three digits (001.wav, 002.wav); the files of distinct slides are
\* distinct, and the synthesis of a slide creates, replaces or removes no
\* file but that slide's.
C28_OwnFile ==
    /\ [](\A f \in files :
            /\ f.slide = 1 => f.name = Wav001
            /\ f.slide = 2 => f.name = Wav002
            /\ Len(f.name) = 7
            /\ \A g \in files : (f.slide = g.slide) <=> (f.name = g.name))
    /\ [][files' # files
            => /\ pc = "slides"
               /\ \A f \in files' \ files : f.slide = notes[slide].SlideNumber
               /\ \A f \in files \ files' : f.slide = notes[slide].SlideNumber]_vars

C28_Witness ==
    /\ pc = "done"
    /\ \E f, g \in files : /\ f.slide = 1 /\ f.name = Wav001 /\ f.state # "partial"
                            /\ g.slide = 2 /\ g.name = Wav002 /\ g.state # "partial"

-----------------------------------------------------------------------------
(* the file of the local path *)

\* a step of the local backend that ended the request of a slide
LocalRequest == ~useGemini /\ pc = "slides" /\ last' # last

\* C23: on the local path the file of a slide holds the bytes of the body
\* of the 200 response and nothing else, the WAV writer is not used, and a
\* response with another status writes no file and fails the slide.
C23_LocalFileAsIs ==
    /\ [](~useGemini => \A f \in files : f.state # "wav")
    /\ [][LocalRequest =>
            LET o == last'.outcome
                n == notes[slide].SlideNumber
            IN  /\ o.step = "saved"
                   => /\ last'.err = NoErr /\ n \notin skipped'
                      /\ \E f \in files' :
                            /\ f.name = WavName(n) /\ f.state = "raw"
                            /\ f.data = o.body
                      /\ \A f \in files' : f.name = WavName(n) => f.data = o.body
                /\ (o.step = "request" /\ o.err = "status")
                   => /\ files' = files
                      /\ last'.err # NoErr /\ n \in skipped']_vars

C23_Witness ==
    /\ ~useGemini /\ pc = "done" /\ skipped = {2}
    /\ last.outcome.err = "status"
    /\ \E f \in files : f.slide = 1 /\ f.state = "raw" /\ f.data = <<82, 73>>

-----------------------------------------------------------------------------
(* config.go: the saved keys as defaults of the environment *)

\* one saved key more than the environment has numbered variables
MaxCfgKeys == MaxEnvKeys + 1

\* the i-th saved key, none of them a key of the environment
CfgKey(i) == Key(20 + i)

\* google_api_keys as loadGlobalConfig returns it: trimmed, no blank, no
\* duplicate
CfgKeysOf(n) == [i \in 1..n |-> CfgKey(i)]
CfgSet == {CfgKeysOf(n) : n \in 0..MaxCfgKeys}

\* environments with a key in one of the variables, the last numbered one
\* among them, and the one with none
ConfigEnvs ==
    EnvAll \cup
    {[numbered |-> [i \in 1..MaxEnvKeys |-> IF i = MaxEnvKeys THEN Key(1) ELSE Unset],
      single |-> Unset]}

\* lines 99-107
hasAnyKey(e) ==
    e.single # Unset \/ \E i \in 1..MaxEnvKeys : e.numbered[i] # Unset

\* lines 109-119: the saved keys set in the environment
Setenv(e, ks) ==
    [numbered |-> [i \in 1..MaxEnvKeys |->
                     IF i <= Len(ks) THEN ks[i] ELSE e.numbered[i]],
     single |-> ks[1]]

\* the defaults that overwrite what the environment has
applyGlobalEnvDefaultsAlways(e, ks) ==
    IF Len(ks) > 0 THEN Setenv(e, ks) ELSE e

\* applyGlobalEnvDefaults, the configuration loaded
applyGlobalEnvDefaults(e, ks) ==
    IF ~hasAnyKey(e) /\ Len(ks) > 0 THEN Setenv(e, ks) ELSE e

\* the elements of a sequence
Range(q) == {q[i] : i \in 1..Len(q)}

\* normalizeKeys: every key trimmed, the blank ones and those seen before
\* left out
RECURSIVE NormLoop(_, _)
NormLoop(ks, out) ==
    IF ks = <<>> THEN out
    ELSE LET k == TrimSpace(Head(ks)) IN
         IF k = <<>> \/ k \in Range(out) THEN NormLoop(Tail(ks), out)
         ELSE NormLoop(Tail(ks), Append(out, k))

normalizeKeys(ks) == NormLoop(ks, <<>>)

\* the configuration file: its two fields
ConfigFile(ks, legacy) == [GoogleAPIKeys |-> ks, GoogleAPIKey |-> legacy]

\* loadGlobalConfig, the file read: a single key of the older field taken
\* for the list when there is no list, and the list normalised
loadGlobalConfig(file) ==
    LET ks == IF Len(file.GoogleAPIKeys) = 0 /\ TrimSpace(file.GoogleAPIKey) # <<>>
              THEN <<TrimSpace(file.GoogleAPIKey)>>
              ELSE file.GoogleAPIKeys
    IN  [file EXCEPT !.GoogleAPIKeys = normalizeKeys(ks)]

InitConfig ==
    /\ doc = <<>>
    /\ env \in ConfigEnvs
    /\ useGemini = TRUE
    /\ pc = "config"
    /\ Idle
    /\ StageIdle /\ images = {} /\ VideoIdle
    /\ cancelled = FALSE
    /\ cfgKeys \in CfgSet /\ cfgLegacy = <<>> /\ cmd = NoCmd
    /\ wavIn = NoWav /\ wavOut = NoWavFile /\ wf = NoWorkflow

\* applyGlobalEnvDefaults: the configuration file read, which can fail, and
\* the environment completed from it
ApplyDefaults ==
    /\ pc = "config"
    /\ \E loaded \in BOOLEAN :
         IF loaded
         THEN /\ env' = applyGlobalEnvDefaults(
                           env, loadGlobalConfig(ConfigFile(cfgKeys, cfgLegacy)).GoogleAPIKeys)
              /\ pc' = "start" /\ exitErr' = exitErr
         ELSE /\ env' = env
              /\ pc' = "aborted" /\ exitErr' = [kind |-> "invalid config file"]
    /\ UNCHANGED <<doc, useGemini, keys, index, notes, parseErr, slide,
                   keyAttempt, lastErr, files, tried, last, skipped, runErr,
                   health>>
    /\ UNCHANGED <<stageVars, videoVars, auxVars>>

NextConfig ==
    \/ ApplyDefaults
    \/ LoadKeys

SpecConfig == InitConfig /\ [][NextConfig]_vars

\* C27: with GOOGLE_API_KEY or one of GOOGLE_API_KEY_1..10 set to a
\* non-empty value applyGlobalEnvDefaults changes no variable of the
\* environment; with none of them set it exports the saved keys, the i-th
\* as GOOGLE_API_KEY_i for i <= 10 and the first as GOOGLE_API_KEY.
C27_EnvFirst ==
    [][pc = "config" /\ pc' # "config" =>
         /\ ~NoKeyInEnv => env' = env
         /\ exitErr' # NoErr => env' = env
         /\ (NoKeyInEnv /\ exitErr' = NoErr) =>
               /\ \A i \in 1..10 :
                     env'.numbered[i] = IF i <= Len(cfgKeys) THEN cfgKeys[i] ELSE Unset
               /\ env'.single = IF cfgKeys # <<>> THEN cfgKeys[1] ELSE Unset]_vars

\* the saved keys were exported, ten of eleven, and became the pool
C27_Witness ==
    /\ pc = "read" /\ Len(cfgKeys) = 11 /\ Len(keys) = 10
    /\ env.single = cfgKeys[1] /\ env.numbered[10] = cfgKeys[10]
    /\ keys[10] = CfgKey(10)

-----------------------------------------------------------------------------
(* the caller's context *)

\* the caller cancels the context, or its deadline passes, at any moment of
\* the run
Cancel ==
    /\ pc \notin {"aborted", "done"}
    /\ ~cancelled
    /\ cancelled' = TRUE
    /\ UNCHANGED <<cfgKeys, cfgLegacy, cmd, wavIn, wavOut, wf>>
    /\ UNCHANGED <<ttsVars, stageVars, videoVars>>

NextCancel ==
    \/ Next
    \/ Cancel

SpecCancel == Init /\ [][NextCancel]_vars

\* a step in which a call to the local service or to the remote API came
\* to an end, and what came back
ProbeEnded == health' # health
LocalEnded == ~useGemini /\ pc = "slides" /\ last' # last
RemoteEnded == Attempted

\* C24, as claimed: every network call (the health probe, the local
\* synthesis request, each remote attempt) is bound to the caller's
\* context: with the context cancelled no such call is started or runs to
\* completion, it can only end with the context's error.
C24_ContextBound ==
    [][cancelled =>
         /\ ~ProbeEnded
         /\ LocalEnded => last'.outcome.err = CtxErr
         /\ RemoteEnded => ThisAttempt.class \in {"local", "fatal"}
         /\ (RemoteEnded /\ last' # NoRequest)
            => (last'.outcome.step = "NewClient" \/ last'.outcome.err = CtxErr)]_vars

-----------------------------------------------------------------------------
(* synthesis, assembly and concatenation in a row *)

\* the slides of the document
E2ESlides == 3

\* every slide with its comment
E2EDoc == DocOf([i \in 1..E2ESlides |-> "noted"])

\* the rendered images slide.001.png, slide.002.png, ...
E2EImages == {ImageName(Sprintf03(i)) : i \in 1..E2ESlides}

InitE2E ==
    /\ doc = E2EDoc
    /\ env = [numbered |-> [i \in 1..MaxEnvKeys |-> Unset], single |-> Unset]
    /\ useGemini = FALSE
    /\ pc = "run"
    /\ Idle
    /\ StageIdle /\ images = E2EImages /\ VideoIdle /\ AuxIdle

\* the video stage entered after a synthesis that returned without error,
\* on the directory the audio was written to
StartVideo ==
    /\ pc = "done" /\ runErr = NoErr
    /\ vpc = "off"
    /\ vpc' = "start"
    /\ UNCHANGED <<images, slideFiles, vi, order, clips, filelist, concat,
                   videoErr, combineErr>>
    /\ UNCHANGED <<ttsVars, stageVars, auxVars>>

\* createVideo's loop over the audio directory as synthesis left it
E2EVideoSlide == CreateVideoSlideOn(TRUE)

NextE2E ==
    \/ Run
    \/ LoadKeys
    \/ ReadFile
    \/ MkdirAll
    \/ ExtractNotes
    \/ LocalTTS
    \/ StartVideo
    \/ CreateVideoStart
    \/ E2EVideoSlide
    \/ CombineVideos

SpecE2E == InitE2E /\ [][NextE2E]_vars

\* every slide's synthesis was answered with 200 and its audio saved
AllSynthesised ==
    /\ skipped = {}
    /\ \A n \in 1..E2ESlides : \E f \in files : f.slide = n /\ f.state = "raw"

\* neither stage of the video track returned an error, and no slide that
\* had its audio failed in the encoder
ToolsWorked ==
    /\ videoErr = NoErr /\ combineErr = NoErr
    /\ \A i \in 1..Len(order) : order[i].outcome \in {"ok", "no audio"}

-----------------------------------------------------------------------------
(* writeWAVFile *)

\* the longest PCM input, the most channels, the highest sample rate
MaxPcm == 3
MaxChannels == 2
MaxRate == 2

\* byte values: the least, the greatest, and the two about the sign bit
PcmBytes == {0, 1, 127, 128, 255}

\* the bits of an int16, as a number of 0..65535, and the int16 of the bits
Uint16(v) == IF v < 0 THEN v + 65536 ELSE v
Wrap16(u) == IF u % 65536 >= 32768 THEN (u % 65536) - 65536 ELSE u % 65536

\* a | b on the n low bits
RECURSIVE OrBits(_, _, _)
OrBits(a, b, n) ==
    IF n = 0 THEN 0
    ELSE (IF a % 2 = 1 \/ b % 2 = 1 THEN 1 ELSE 0)
         + 2 * OrBits(a \div 2, b \div 2, n - 1)

\* x << 8 and x | y on int16: the bits that do not fit are lost
Shl8(x) == Wrap16(Uint16(x) * 256)
Or16(x, y) == Wrap16(OrBits(Uint16(x), Uint16(y), 16))

\* the sample as two bytes read big end first
Int16BigEndian(lo, hi) == Or16(hi, Shl8(lo))

\* int16(lo) | int16(hi)<<8: the signed 16-bit sample of two bytes, little
\* end first
Int16(lo, hi) == Or16(lo, Shl8(hi))

\* the two bytes the encoder writes for int16(v), and the one for uint8(v)
Bytes16(v) == <<Uint16(v) % 256, Uint16(v) \div 256>>
Bytes8(v) == <<IF v < 0 THEN v + 256 ELSE v>>

\* lines 88-113: the buffer of samples, the input's first and zeros after
Samples(pcmData, channels, sampleRate, bitsPerSample) ==
    LET bytesPerSample == bitsPerSample \div 8
        numSamples == Len(pcmData) \div bytesPerSample
        silenceSamples == sampleRate * channels
        totalSamples == numSamples + silenceSamples
    IN  [i \in 1..totalSamples |->
           IF i > numSamples THEN 0
           ELSE LET offset == (i - 1) * bytesPerSample IN
                IF bitsPerSample = 16
                THEN Int16(pcmData[offset + 1], pcmData[offset + 2])
                ELSE IF bitsPerSample = 8 THEN pcmData[offset + 1] - 128
                ELSE 0]

\* the offsets of pcmData that the loop of lines 105-113 reads
ReadOffsets(pcmData, bitsPerSample) ==
    LET bytesPerSample == bitsPerSample \div 8
        numSamples == Len(pcmData) \div bytesPerSample
    IN  UNION {IF bitsPerSample = 16
               THEN {i * bytesPerSample, i * bytesPerSample + 1}
               ELSE IF bitsPerSample = 8 THEN {i * bytesPerSample} ELSE {} :
                 i \in 0..(numSamples - 1)}

\* buf.NumFrames() of the encoder's Write: the whole frames of the buffer
NumFrames(data, numChannels) ==
    Len(data) \div (IF numChannels = 0 THEN 1 ELSE numChannels)

\* the bytes of the samples one after the other
RECURSIVE Encode(_, _)
Encode(data, bitDepth) ==
    IF data = <<>> THEN <<>>
    ELSE (IF bitDepth = 16 THEN Bytes16(Head(data)) ELSE Bytes8(Head(data)))
         \o Encode(Tail(data), bitDepth)

\* lines 117-121: enc.Write(buf) and enc.Close(): the header with the
\* format given to NewEncoder, and the samples of the whole frames
writeWAVFile(pcmData, channels, sampleRate, bitsPerSample) ==
    LET data == Samples(pcmData, channels, sampleRate, bitsPerSample)
        frames == NumFrames(data, channels)
    IN  [written |-> TRUE,
         NumChannels |-> channels, SampleRate |-> sampleRate,
         BitDepth |-> bitsPerSample,
         Buf |-> data, Reads |-> ReadOffsets(pcmData, bitsPerSample),
         Data |-> Encode(SubSeq(data, 1, frames * channels), bitsPerSample)]

WavInputs ==
    [pcmData : SeqsUpTo(PcmBytes, MaxPcm), channels : 1..MaxChannels,
     sampleRate : 1..MaxRate, bitsPerSample : {8, 16}]

InitWav ==
    /\ doc = <<>>
    /\ env = [numbered |-> [i \in 1..MaxEnvKeys |-> Unset], single |-> Unset]
    /\ useGemini = TRUE
    /\ pc = "wav"
    /\ Idle
    /\ StageIdle /\ images = {} /\ VideoIdle
    /\ cancelled = FALSE /\ cfgKeys = <<>> /\ cfgLegacy = <<>> /\ cmd = NoCmd
    /\ wavIn \in WavInputs
    /\ wavOut = NoWavFile /\ wf = NoWorkflow

\* one call of writeWAVFile: the file cannot be created, or the write
\* fails, or the file is written
WriteWav ==
    /\ pc = "wav"
    /\ \E o \in {"ok", "create", "write"} :
         wavOut' = IF o = "ok"
                   THEN writeWAVFile(wavIn.pcmData, wavIn.channels,
                                     wavIn.sampleRate, wavIn.bitsPerSample)
                   ELSE NoWavFile
    /\ pc' = "done"
    /\ UNCHANGED <<doc, env, useGemini, keys, index, notes, parseErr, slide,
                   keyAttempt, lastErr, files, tried, last, skipped, runErr,
                   health, exitErr>>
    /\ UNCHANGED <<cancelled, cfgKeys, cfgLegacy, cmd, wavIn, wf>>
    /\ UNCHANGED <<stageVars, videoVars>>

NextWav == WriteWav

SpecWav == InitWav /\ [][NextWav]_vars

\* n bytes of silence
Zeros(n) == [i \in 1..n |-> 0]

\* C22, as claimed: at bit depth 16, for every PCM byte sequence, channel
\* count and sample rate, the file declares the channel count, sample rate
\* and bit depth it was given, and its sample data is the len(pcm)/2 input
\* samples as they were, in order, and after them exactly sampleRate x
\* channels samples of value zero.
C22_WavRoundTrip ==
    (wavOut.written /\ wavIn.bitsPerSample = 16) =>
       LET numSamples == Len(wavIn.pcmData) \div 2 IN
       /\ wavOut.NumChannels = wavIn.channels
       /\ wavOut.SampleRate = wavIn.sampleRate
       /\ wavOut.BitDepth = 16
       /\ wavOut.Data = SubSeq(wavIn.pcmData, 1, 2 * numSamples)
                        \o Zeros(2 * wavIn.sampleRate * wavIn.channels)

-----------------------------------------------------------------------------
(* assembly before concatenation *)

\* createCombinedVideo is entered in this step, and it has left a trace
CombineInvoked == vpc = "made" /\ vpc' = "done"
CombineTrace == filelist # NoFile \/ concat # "not run" \/ combineErr # NoErr

\* what the track sends for the returns of the two calls
TrackReport == videoTrack(TRUE, videoErr.kind, combineErr.kind)

\* the error of lines 66-68
NoImagesErr == [kind |-> "no slide images found"]

\* C31: within a video track createCombinedVideo is invoked only after
\* createVideo has returned without error; when createVideo fails on its
\* precondition, no slide image in the directory, the concatenation is not
\* invoked, no slide has gone to the encoder, and the track reports that
\* failure.
C31_AssemblyFirst ==
    /\ [](vpc = "made" => (videoErr = NoErr /\ vi > Len(slideFiles)))
    /\ [](videoErr # NoErr => (~CombineTrace /\ vpc = "done" /\ TrackReport = videoErr))
    /\ []((vpc \notin {"off", "start"} /\ Glob(images) = <<>>) => videoErr # NoErr)
    /\ [](videoErr = NoImagesErr =>
            /\ Glob(images) = <<>>
            /\ order = <<>> /\ clips = {} /\ slideFiles = <<>>
            /\ TrackReport = NoImagesErr)
    /\ [][(CombineInvoked \/ CombineTrace' # CombineTrace)
            => (vpc = "made" /\ videoErr = NoErr /\ ~CombineTrace)]_vars

C31_Witness ==
    vpc = "done" /\ images = {} /\ videoErr = NoImagesErr /\ ~CombineTrace

-----------------------------------------------------------------------------
(* run of the whole workflow: rendering, synthesis, video *)

\* the stage flags
StageFlags == {"marp", "tts", "video"}

\* lines 117-141 and 145-161: the stages run asks for, in its order: all
\* three without a flag, else those of the flags
Plan(flags) ==
    IF flags = {} THEN <<"marp", "tts", "video">>
    ELSE SelectSeq(<<"marp", "video", "tts">>, LAMBDA st : st \in flags)

\* lines 110-115: the health check is made when synthesis is to run on the
\* local backend
willUseTTS(flags, gemini) == (flags = {} \/ "tts" \in flags) /\ ~gemini

\* what a stage can return
StageReturns == {NoErr, [kind |-> "failed"]}

\* a run that takes no notice of what a stage returned
StageFailedNever(err) == FALSE

\* if err := runXxx(...); err != nil
StageFailed(err) == err # NoErr

\* the error run returns for the error of a stage
WrapStageErr(st, err) ==
    [kind |-> CASE st = "marp" -> "marp generation failed"
                [] st = "tts" -> "TTS generation failed"
                [] st = "video" -> "video creation failed",
     cause |-> err]

InitWorkflow ==
    /\ NoRun /\ Idle
    /\ StageIdle /\ images = {} /\ VideoIdle
    /\ cancelled = FALSE /\ cfgKeys = <<>> /\ cfgLegacy = <<>> /\ cmd = NoCmd
    /\ wavIn = NoWav /\ wavOut = NoWavFile
    /\ \E fl \in SUBSET StageFlags, g \in BOOLEAN :
         wf = [pc |-> "health", flags |-> fl, gemini |-> g, started |-> <<>>,
               returns |-> <<>>, ret |-> NoErr]

\* lines 108-115: the health check, where one is made
WfHealth ==
    /\ wf.pc = "health"
    /\ \E h \in HealthOutcomes :
         LET herr == checkKokoVoxHealth(h) IN
         IF willUseTTS(wf.flags, wf.gemini) /\ herr # NoErr
         THEN wf' = [wf EXCEPT !.pc = "done", !.ret = herr]
         ELSE wf' = [wf EXCEPT !.pc = "next"]
    /\ UNCHANGED <<cancelled, cfgKeys, cfgLegacy, cmd, wavIn, wavOut>>
    /\ UNCHANGED <<ttsVars, stageVars, videoVars>>

\* run calls the next stage of its plan, or returns nil after the last
WfCall ==
    /\ wf.pc = "next"
    /\ LET plan == Plan(wf.flags) IN
       IF Len(wf.started) = Len(plan)
       THEN wf' = [wf EXCEPT !.pc = "done", !.ret = NoErr]
       ELSE wf' = [wf EXCEPT !.pc = "in",
                             !.started = Append(@, plan[Len(wf.started) + 1])]
    /\ UNCHANGED <<cancelled, cfgKeys, cfgLegacy, cmd, wavIn, wavOut>>
    /\ UNCHANGED <<ttsVars, stageVars, videoVars>>

\* the stage returns, and run returns its error if it has one
WfReturn ==
    /\ wf.pc = "in"
    /\ \E err \in StageReturns :
         LET st == wf.started[Len(wf.started)]
             got == Append(wf.returns, [stage |-> st, err |-> err])
         IN  IF StageFailed(err)
             THEN wf' = [wf EXCEPT !.pc = "done", !.returns = got,
                                   !.ret = WrapStageErr(st, err)]
             ELSE wf' = [wf EXCEPT !.pc = "next", !.returns = got]
    /\ UNCHANGED <<cancelled, cfgKeys, cfgLegacy, cmd, wavIn, wavOut>>
    /\ UNCHANGED <<ttsVars, stageVars, videoVars>>

NextWorkflow ==
    \/ WfHealth
    \/ WfCall
    \/ WfReturn

SpecWorkflow == InitWorkflow /\ [][NextWorkflow]_vars

\* the order of the default workflow
DefaultOrder == <<"marp", "tts", "video">>

\* C32: without a stage flag the stages run in the order rendering,
\* synthesis, video creation; a stage is started only with every earlier
\* one returned without error, and the failure of a stage makes run return
\* an error with no later stage started.
C32_StageOrder ==
    wf.flags = {} =>
       /\ Len(wf.started) <= 3
       /\ wf.started = SubSeq(DefaultOrder, 1, Len(wf.started))
       /\ Len(wf.returns) = IF wf.pc = "in" THEN Len(wf.started) - 1
                            ELSE Len(wf.started)
       /\ \A i \in 1..Len(wf.returns) :
             /\ wf.returns[i].stage = wf.started[i]
             /\ i < Len(wf.started) => wf.returns[i].err = NoErr
       /\ \A i \in 1..Len(wf.returns) :
             wf.returns[i].err # NoErr
             => /\ i = Len(wf.started) /\ wf.pc = "done"
                /\ wf.ret = WrapStageErr(wf.started[i], wf.returns[i].err)
       /\ (wf.pc = "done" /\ wf.ret = NoErr)
          => /\ wf.started = DefaultOrder
             /\ \A i \in 1..3 : wf.returns[i].err = NoErr

\* C32 witness: rendering returned, synthesis failed, run returned its
\* error and video creation was never started
C32_Witness ==
    /\ wf.flags = {} /\ wf.pc = "done"
    /\ wf.started = <<"marp", "tts">>
    /\ wf.returns[1].err = NoErr /\ wf.returns[2].err # NoErr
    /\ wf.ret.kind = "TTS generation failed"

-----------------------------------------------------------------------------
(* rules that are no separators *)

\* nodes of documents with rules inside other blocks
NestedNodeSet == {ThematicBreak, HeadingT, CommentA, ParagraphX, FencedRule, QuoteRule}

NestedDocs == SeqsUpTo(NestedNodeSet, MaxNodes)

InitNested ==
    /\ doc \in NestedDocs
    /\ env = [numbered |-> [i \in 1..MaxEnvKeys |-> Unset], single |-> Unset]
    /\ useGemini = FALSE
    /\ pc = "parse"
    /\ Idle
    /\ StageIdle /\ images = {} /\ VideoIdle /\ AuxIdle

SpecNested == InitNested /\ [][NextParse]_vars

\* a node that holds a rule and is none
HoldsRule(n) == n \in {FencedRule, QuoteRule}

\* d with a paragraph of plain text for every node that holds a rule
Plain(d) == [i \in 1..Len(d) |-> IF HoldsRule(d[i]) THEN ParagraphX ELSE d[i]]

\* the thematic breaks among the children of the document
TopBreaks(d) == {i \in 1..Len(d) : d[i].kind = "ThematicBreak"}

\* the runs of children between one top-level break and the next that
\* hold a node, counted from the left
RECURSIVE Runs(_, _)
Runs(d, open) ==
    IF d = <<>> THEN 0
    ELSE IF Head(d).kind = "ThematicBreak" THEN Runs(Tail(d), FALSE)
    ELSE (IF open THEN 0 ELSE 1) + Runs(Tail(d), TRUE)

\* C33: the slide boundaries are the thematic breaks that are children of
\* the document and nothing else: a --- inside a code fence or inside
\* another block starts no slide, and the number of slides is the number
\* of non-empty segments between top-level thematic breaks.
C33_TopLevelBreaks ==
    Parsed =>
       LET slides == splitNodesByThematicBreak(doc) IN
       /\ Len(slides) = Runs(doc, FALSE)
       /\ Len(slides) = Len(SlidesOf(doc))
       /\ Len(slides) <= Cardinality(TopBreaks(doc)) + 1
       /\ slides = splitNodesByThematicBreak(Plain(doc))
       /\ parseErr = NoErr => Len(notes) = Len(slides)
       /\ parseErr # NoErr => parseErr.slide \in 1..Len(slides)

\* C33 witness: a comment, a fence with --- in it, a separator, a comment:
\* two slides
C33_Witness ==
    /\ Parsed /\ doc = <<CommentA, FencedRule, ThematicBreak, CommentA>>
    /\ parseErr = NoErr /\ Len(notes) = 2

-----------------------------------------------------------------------------
(* front matter *)

\* the block at the head of a source: ---, a line of YAML, ---
FrontMatter ==
    Node("FrontMatter", 0, <<>>, 0,
         << <<"-", "-", "-", "\n">>, <<"t", ":", " ", "x", "\n">>,
            <<"-", "-", "-", "\n">> >>, <<>>)

\* what the plain parser makes of that block: a thematic break, and the
\* YAML line as a heading of level 2 underlined by the second ---
SetextTitle ==
    Node("Heading", 2, << [kind |-> "Text", value |-> <<"t", ":", " ", "x">>] >>, 0,
         << <<"t", ":", " ", "x", "\n">>, <<"-", "-", "-", "\n">> >>, <<>>)

\* the blocks of a source after its front matter
BodyNodeSet == {ThematicBreak, HeadingT, CommentA, CommentB, ParagraphX}

\* sources: blocks in order, with or without front matter at the head
Sources ==
    LET bodies == SeqsUpTo(BodyNodeSet, MaxNodes)
    IN  bodies \cup {<<FrontMatter>> \o b : b \in bodies}

HasFrontMatter(src) == src # <<>> /\ Head(src) = FrontMatter

\* goldmark.New() without the extension
ParsePlain(src) ==
    IF HasFrontMatter(src) THEN <<ThematicBreak, SetextTitle>> \o Tail(src) ELSE src

\* lines 211-218: the parser built with frontmatter.Extender: the front
\* matter is taken off the head and is no node of the document
Parse(src) == IF HasFrontMatter(src) THEN Tail(src) ELSE src

InitFront ==
    /\ doc \in Sources
    /\ env = [numbered |-> [i \in 1..MaxEnvKeys |-> Unset], single |-> Unset]
    /\ useGemini = FALSE
    /\ pc = "parse"
    /\ Idle
    /\ StageIdle /\ images = {} /\ VideoIdle /\ AuxIdle

\* extractNotesFromMarkdown on a source: parsed, then split into notes
ParseSource ==
    /\ pc = "parse"
    /\ LET r == extractNotesFromMarkdown(Parse(doc)) IN
       /\ notes' = r.notes
       /\ parseErr' = r.err
    /\ pc' = "parsed"
    /\ UNCHANGED <<doc, env, useGemini, keys, index, slide, keyAttempt,
                   lastErr, files, tried, last, skipped, runErr>>
    /\ UNCHANGED <<health, exitErr, stageVars, videoVars, auxVars>>

NextFront == ParseSource

SpecFront == InitFront /\ [][NextFront]_vars

\* the text of the front matter's YAML line
YamlText == <<"t", ":", " ", "x">>

\* C34: front matter at the head of a document is taken off before the
\* document is split: its delimiters separate no slides and its content is
\* no slide and no narration, so the document gives the SlideNotes, or the
\* error, that it gives without its front matter.
C34_FrontMatter ==
    (Parsed /\ HasFrontMatter(doc)) =>
       LET bare == extractNotesFromMarkdown(Tail(doc)) IN
       /\ notes = bare.notes
       /\ parseErr = bare.err
       /\ \A i \in 1..Len(notes) : Index(notes[i].Note, YamlText) = -1
       /\ parseErr # NoErr => parseErr.title # YamlText

\* C34 witness: front matter, then a separator and two slides with their
\* comments
C34_Witness ==
    /\ Parsed
    /\ doc = <<FrontMatter, ThematicBreak, CommentA, ThematicBreak, CommentB>>
    /\ parseErr = NoErr /\ Len(notes) = 2 /\ notes[1].SlideNumber = 1

-----------------------------------------------------------------------------
(* the order of the pool *)

\* the numbered variables that are set, in ascending order of their index
SetIndices == Ascending({i \in 1..10 : env.numbered[i] # <<>>})

\* NewAPIKeyManager has returned
PoolLoaded == useGemini /\ pc \in {"read", "done"}

\* C35: the pool is the values of the non-empty numbered variables
\* GOOGLE_API_KEY_1..10 in ascending order of their index, gaps passed
\* over; GOOGLE_API_KEY is used only when no numbered variable is set, as
\* a pool of one key, and is never added to a pool of numbered keys.
C35_PoolOrder ==
    PoolLoaded =>
       /\ SetIndices # <<>> =>
             /\ keys = [k \in 1..Len(SetIndices) |-> env.numbered[SetIndices[k]]]
             /\ (\A i \in 1..10 : env.numbered[i] # env.single)
                => \A k \in 1..Len(keys) : keys[k] # env.single
       /\ (SetIndices = <<>> /\ env.single # <<>>) => keys = <<env.single>>
       /\ (SetIndices = <<>> /\ env.single = <<>>) => (keys = <<>> /\ runErr # NoErr)

\* C35 witness: variables 1 and 3 set, 2 not, and GOOGLE_API_KEY set to a
\* third value: the pool is the two numbered keys
C35_Witness ==
    /\ PoolLoaded
    /\ env.numbered[1] = Key(2) /\ env.numbered[2] = <<>> /\ env.numbered[3] = Key(1)
    /\ env.single = <<" ">>
    /\ keys = <<Key(2), Key(1)>>

-----------------------------------------------------------------------------
(* config set api-key, config add api-key *)

\* how many config commands are run in a row
MaxCmds == 2

\* a key with white space about it
Padded(k) == <<" ">> \o k \o <<" ">>

\* keys that no configuration of the model holds
NewKeyA == Key(40)
NewKeyB == Key(41)

\* the arguments given to the commands: a saved key, a saved key with
\* white space, new keys, white space, nothing
CmdArgs == {CfgKey(1), Padded(CfgKey(2)), NewKeyA, Padded(NewKeyB), <<" ">>, <<>>}

\* the lists a configuration file can hold: written by the commands, or by
\* hand with a key twice, with white space, or with one key too many
FileLists ==
    CfgSet \cup {<<CfgKey(1), CfgKey(1)>>, <<Padded(CfgKey(1))>>, << <<" ">> >>}

FileLegacy == {<<>>, CfgKey(1), NewKeyA}

\* what a command leaves: the file, and the error it returns
CmdResult(file, err) == [file |-> file, err |-> err]

\* config set api-key: the list replaced by the one key
configSetAPIKey(file, arg, loaded, saved) ==
    LET key == TrimSpace(arg) IN
    IF key = <<>> THEN CmdResult(file, [kind |-> "api key is empty"])
    ELSE IF ~loaded THEN CmdResult(file, [kind |-> "invalid config file"])
    ELSE IF ~saved THEN CmdResult(file, [kind |-> "save failed"])
    ELSE CmdResult(ConfigFile(<<key>>, <<>>), NoErr)

\* config add api-key that saves whatever the list has grown to
configAddAPIKeyNoLimit(file, arg, loaded, saved) ==
    LET key == TrimSpace(arg)
        ks == normalizeKeys(Append(loadGlobalConfig(file).GoogleAPIKeys, key))
    IN  IF key = <<>> THEN CmdResult(file, [kind |-> "api key is empty"])
        ELSE IF ~loaded THEN CmdResult(file, [kind |-> "invalid config file"])
        ELSE IF ~saved THEN CmdResult(file, [kind |-> "save failed"])
        ELSE CmdResult(ConfigFile(ks, <<>>), NoErr)

\* config add api-key: the key appended to the loaded list, the list
\* normalised, refused when longer than 10, saved otherwise
configAddAPIKey(file, arg, loaded, saved) ==
    LET key == TrimSpace(arg)
        ks == normalizeKeys(Append(loadGlobalConfig(file).GoogleAPIKeys, key))
    IN  IF key = <<>> THEN CmdResult(file, [kind |-> "api key is empty"])
        ELSE IF ~loaded THEN CmdResult(file, [kind |-> "invalid config file"])
        ELSE IF Len(ks) > MaxEnvKeys THEN CmdResult(file, [kind |-> "too many api keys"])
        ELSE IF ~saved THEN CmdResult(file, [kind |-> "save failed"])
        ELSE CmdResult(ConfigFile(ks, <<>>), NoErr)

NoEnv == [numbered |-> [i \in 1..MaxEnvKeys |-> Unset], single |-> Unset]

InitCmd ==
    /\ doc = <<>>
    /\ env \in {NoEnv, [NoEnv EXCEPT !.single = Key(1)]}
    /\ useGemini = TRUE
    /\ pc = "config"
    /\ Idle
    /\ StageIdle /\ images = {} /\ VideoIdle
    /\ cancelled = FALSE
    /\ cfgKeys \in FileLists /\ cfgLegacy \in FileLegacy /\ cmd = NoCmd
    /\ wavIn = NoWav /\ wavOut = NoWavFile /\ wf = NoWorkflow

\* what a config command leaves behind
CmdDone(op, arg, r) ==
    /\ cfgKeys' = r.file.GoogleAPIKeys
    /\ cfgLegacy' = r.file.GoogleAPIKey
    /\ exitErr' = r.err
    /\ cmd' = [op |-> op, key |-> arg, n |-> cmd.n + 1]
    /\ UNCHANGED <<doc, env, useGemini, pc, keys, index, notes, parseErr, slide,
                   keyAttempt, lastErr, files, tried, last, skipped, runErr,
                   health>>
    /\ UNCHANGED <<cancelled, wavIn, wavOut, wf>>
    /\ UNCHANGED <<stageVars, videoVars>>

ConfigSet ==
    /\ pc = "config" /\ cmd.n < MaxCmds
    /\ \E arg \in CmdArgs, loaded \in BOOLEAN, saved \in BOOLEAN :
         CmdDone("set", arg,
                 configSetAPIKey(ConfigFile(cfgKeys, cfgLegacy), arg, loaded, saved))

ConfigAdd ==
    /\ pc = "config" /\ cmd.n < MaxCmds
    /\ \E arg \in CmdArgs, loaded \in BOOLEAN, saved \in BOOLEAN :
         CmdDone("add", arg,
                 configAddAPIKey(ConfigFile(cfgKeys, cfgLegacy), arg, loaded, saved))

NextCmd ==
    \/ ConfigSet
    \/ ConfigAdd
    \/ ApplyDefaults
    \/ LoadKeys

SpecCmd == InitCmd /\ [][NextCmd]_vars

\* the list as loadGlobalConfig gives it, before and after a step
SavedList == loadGlobalConfig(ConfigFile(cfgKeys, cfgLegacy)).GoogleAPIKeys
SavedListAfter == loadGlobalConfig(ConfigFile(cfgKeys', cfgLegacy')).GoogleAPIKeys

FileUnchanged == cfgKeys' = cfgKeys /\ cfgLegacy' = cfgLegacy

\* q without blank or padded entry, and without an entry twice
Normalised(q) ==
    /\ \A i \in 1..Len(q) : q[i] # <<>> /\ TrimSpace(q[i]) = q[i]
    /\ \A i, j \in 1..Len(q) : i # j => q[i] # q[j]

\* C36: the pool never holds more than 10 keys; config add api-key leaves
\* the saved list trimmed, free of duplicates and in insertion order, the
\* new key last and a key already in the list changing nothing; an addition
\* that would make more than 10 keys fails and leaves the saved
\* configuration as it was; config set api-key leaves the list of the one
\* given key.
C36_AtMostTen ==
    /\ [](Len(keys) <= 10)
    /\ [][cmd'.n # cmd.n =>
            LET key == TrimSpace(cmd'.key) IN
            /\ (exitErr' # NoErr /\ exitErr'.kind # "save failed") => FileUnchanged
            /\ (cmd'.op = "add" /\ exitErr' = NoErr) =>
                  /\ Normalised(cfgKeys') /\ Len(cfgKeys') <= 10
                  /\ SavedListAfter = cfgKeys'
                  /\ SavedListAfter = IF key \in Range(SavedList) THEN SavedList
                                      ELSE Append(SavedList, key)
            /\ (cmd'.op = "add" /\ key # <<>> /\ key \notin Range(SavedList)
                   /\ Len(SavedList) >= 10) => exitErr' # NoErr
            /\ (cmd'.op = "set" /\ exitErr' = NoErr) =>
                  /\ key # <<>>
                  /\ cfgKeys' = <<key>> /\ SavedListAfter = <<key>>]_vars

\* C36 witness: ten keys saved, an eleventh refused, the file as it was,
\* and the pool of a later run the ten keys
C36_Witness ==
    /\ cmd = [op |-> "add", key |-> NewKeyA, n |-> 1]
    /\ exitErr.kind = "too many api keys"
    /\ cfgKeys = CfgKeysOf(10)
    /\ pc = "read" /\ keys = CfgKeysOf(10)

-----------------------------------------------------------------------------
(* runVideoCreation without its directories *)

DistMissing == [kind |-> "dist directory does not exist"]

\* C37: in runVideoCreation a missing dist directory is returned as an
\* error before either track starts; a track whose language directory is
\* missing sends nil and calls neither createVideo nor createCombinedVideo;
\* so with both language directories missing the stage returns nil and no
\* clip and no combined video was made.
C37_MissingDirectories ==
    stage = "video" =>
      /\ stageErr = DistMissing =>
            /\ stagePc = "done"
            /\ \A l \in Languages : track[l] = TrackOff
            /\ resultChan = <<>> /\ recvd = <<>>
      /\ (\E l \in Languages : track[l].pc # "off") => stageErr # DistMissing
      /\ \A l \in Languages :
            track[l].dir = "missing" =>
              /\ track[l].err = NoErr
              /\ track[l].calls = {}
      /\ ((\A l \in Languages : track[l].dir = "missing") /\ stagePc = "done") =>
            /\ stageErr = NoErr /\ stageWarn = "none"
            /\ \A l \in Languages : track[l].calls = {}

\* C37 witness: the stage returned nil with both language directories missing
C37_Witness ==
    /\ stage = "video" /\ stagePc = "done"
    /\ \A l \in Languages : track[l].dir = "missing" /\ track[l].pc = "sent"
    /\ stageErr = NoErr

-----------------------------------------------------------------------------
(* the samples writeWAVFile decodes *)

\* lo + 256*hi taken modulo 2^16 as a two's complement number
TwosComplement(lo, hi) ==
    LET u == (lo + 256 * hi) % 65536 IN IF u >= 32768 THEN u - 65536 ELSE u

====
